---- MODULE Spec2Model ----
(***************************************************************************)
(* LVM (LAN video meeting): the relay server and the discovery of          *)
(* electron/main.js, the relay client of renderer/signaling.js with its    *)
(* CryptoManager, and the negotiation coordinator of renderer/renderer.js  *)
(* + renderer/webrtc.js, as one state machine.                             *)
(*                                                                         *)
(* The specifications share the definitions:                               *)
(*   SpecRelay  the relay server alone, fed arbitrary envelopes            *)
(*   SpecCoord  one renderer alone, fed arbitrary envelopes                *)
(*   Spec       relay server and renderers composed: the room forms        *)
(*   SpecMesh   Spec without Media Engine failures, with fair scheduling   *)
(*   SpecLife   relay server and renderers composed: the room forms and    *)
(*              is left                                                    *)
(*   SpecFail   the room with connections that fail before the welcome     *)
(*   SpecEnd    a host that exits and one joiner, with fair scheduling     *)
(*   SpecWire   one renderer with a room key, fed envelopes off the wire   *)
(*   SpecCrypto CryptoManager on bounded messages and frames               *)
(*   SpecDirectory  discovery timers, announcements and the sweep          *)
(*   SpecInvite     invitations and their notifications                    *)
(*   SpecLink   one renderer alone, with connection-state callbacks        *)
(*   SpecQuit   the timers of the main process up to before-quit           *)
(*   SpecKey    one CryptoManager and the calls that await its key         *)
(*   SpecFrames the receiver transform on good and bad frames              *)
(*   SpecSession  one renderer's onCreateRoom / joinRoom calls in flight   *)
(*   SpecReconnect  one hosting renderer whose relay connection closes     *)
(*   SpecOrder  the relay server reading queues of numbered envelopes      *)
(*   SpecInput  the relay server and the discovery socket, fed anything    *)
(***************************************************************************)
EXTENDS Naturals, Integers, Sequences, FiniteSets, TLC

\* ------------------------------------------------------------------ bounds
NumSocks == 2
NumIds == 2

Socks == 1..NumSocks
Ids == 1..NumIds
\* 0 stands for a missing / falsy field (clientId, to, name undefined)
NoId == 0
\* this.crypto of a SignalingClient constructed without roomId: null
NoRoom == 0
Guest == 9

\* ---------------------------------------------------------------- envelopes
\* One record shape for every JSON envelope; unused fields are 0 / <<>>.
\* payload is the sdp / candidate field, a string: the JSON text of the
\* object, or the base64 text of its ciphertext when encrypted is set.
Envelope(t) ==
  [t |-> t, clientId |-> NoId, name |-> 0, you |-> NoId, participants |-> <<>>,
   from |-> NoId, to |-> NoId, payload |-> <<>>, encrypted |-> FALSE]

\* JSON.stringify() of a session description or a candidate
Sdp == <<1, 1>>

VARIABLES
  wsServer,          \* main.js: let wsServer (TRUE while a server object is recorded)
  clientIdToSocket,  \* main.js: Map clientId -> ws, as <<[id, sock]>> in insertion order
  clientIdToInfo,    \* main.js: Map clientId -> {name}, as <<[id, name]>> in insertion order
  thisClientId,      \* per connection closure variable thisClientId (0 = null)
  sockState,         \* per server-side socket: "idle" | "open" | "terminated" | "closed"
  toRelay,           \* per connection: envelopes in flight client -> relay
  toClient,          \* per connection: envelopes in flight relay -> client
  netClosed,         \* per connection: the client end has closed / the link broke
  lastOp             \* what the last handler that ran did: [op, sock, msg, events]

relayVars == <<wsServer, clientIdToSocket, clientIdToInfo, thisClientId, sockState,
               toRelay, toClient, netClosed, lastOp>>

VARIABLES
  roomHost,     \* the instance whose room is announced (0 = no room yet)
  started,      \* per instance: it has created or joined its room
  currentRoom,  \* renderer.js: let currentRoom, by its mode: "none" | "host" | "join"
  exiting,      \* per instance: onExit() is suspended at await Discovery.stopHosting()
  signaling,    \* renderer.js: let signaling (TRUE while a SignalingClient is held)
  ws,           \* SignalingClient.ws: "none" | "connecting" | "open" | "closing" | "closed"
  promise,      \* the promise of connect(): "none" | "pending" | "resolved" | "rejected"
  peers,        \* WebRTCManager.peers: remote id -> [sig, done, offers, failed]
  openPcs,      \* per remote id: RTCPeerConnections created for it and not closed
  tasks,        \* handlers suspended at an await: [kind, peer, stale, rest]
  userExits,    \* how often an Exit button was pressed
  engineFailures \* how many Media Engine calls on an open pc have rejected

VARIABLES
  crypto,       \* SignalingClient.crypto: the room id of its CryptoManager (0 = null)
  cryptoOps     \* SignalingClient: send() and onmessage suspended at an await of
                \* crypto.encrypt / crypto.decrypt, as <<[dir, msg]>> in call order

rendererVars == <<roomHost, started, currentRoom, exiting, signaling, ws, promise,
                  peers, openPcs, tasks, userExits, engineFailures, crypto, cryptoOps>>

VARIABLES
  now,                   \* Date.now(), in ticks
  roomMap,               \* main.js: Map roomId -> {data, lastSeen}, as roomId -> lastSeen
  peerMap,               \* main.js: Map peerId -> {data, lastSeen}, as peerId -> lastSeen
  pruneInterval,         \* main.js: the sweep timer, by the time it is due
  announceInterval,      \* main.js: the room announcement timer, by the time it is due
  peerAnnounceInterval,  \* main.js: the presence timer, by the time it is due
  isHosting,             \* main.js: let isHosting
  remoteTimers,          \* the announcement timers of the other instances of the LAN
  notified,              \* the rooms-update / peers-update the last handler sent
  rooms,                 \* DiscoveryController.rooms, as roomId -> the ts of its entry
  emits,                 \* DiscoveryController._emit(): the calls so far, modulo 2
  discoverySocket,       \* main.js: let discoverySocket, "open" or "closed"
  lastSent,              \* when Me last sent an announce / a peer-presence datagram
  shownInvitations,      \* renderer.js: let shownInvitations
  banners,               \* the notification banners in the document, by their message
  delivered              \* how many notifications the user was shown for an invitation

discoveryVars == <<now, roomMap, peerMap, pruneInterval, announceInterval,
                   peerAnnounceInterval, isHosting, remoteTimers, notified, rooms,
                   emits, discoverySocket, lastSent,
                   shownInvitations, banners, delivered>>

VARIABLES
  cryptoRun,    \* the last calls made on a CryptoManager and what they returned
  manager,      \* one CryptoManager: its key and the calls in flight on it
  transform     \* one receiver transform: the frames to come and what it enqueued

cryptoVars == <<cryptoRun, manager, transform>>

VARIABLES
  written,         \* per relay connection: the tags of the envelopes its client wrote
  session          \* one renderer: currentRoom, Discovery.hosting, the calls of
                   \* onCreateRoom / joinRoom in flight, the SignalingClients made,
                   \* the timers of the host's onClosed that are pending

sideVars == <<written, session>>
unitVars == <<cryptoVars, sideVars>>

vars == <<relayVars, rendererVars, discoveryVars, unitVars>>

NumClients == 3
\* The users press Exit at most MaxExits times and at most MaxFailures Media
\* Engine calls reject.
MaxExits == 1
MaxFailures == 1
\* An instance's clientId and its relay connection carry the same number.
Clients == 1..NumClients

\* ------------------------------------------------- one renderer's room calls
\* renderer.js: onCreateRoom() and joinRoom(room) as calls that suspend at
\* their awaits.  A call is [kind, stage]; hosting is Discovery.hosting,
\* isHosting is the flag of the main process, made lists the mode of every
\* SignalingClient constructed, and timers counts the setTimeout calls of the
\* host's onClosed whose callback has not run.
MaxClicks == 3
Clicks == 1..MaxClicks
IdleCall == [kind |-> "none", stage |-> "idle"]
NewSession ==
  [currentRoom |-> "none", hosting |-> FALSE, isHosting |-> FALSE,
   calls |-> [i \in Clicks |-> IdleCall], made |-> <<>>, timers |-> 0]

\* nothing written, no call made
IdleSide ==
  /\ written = [s \in Socks |-> <<>>]
  /\ session = NewSession

SessionFrame == UNCHANGED <<relayVars, rendererVars, discoveryVars, cryptoVars, written>>
Stage(i, kind, stage) == [session.calls EXCEPT ![i] = [kind |-> kind, stage |-> stage]]

\* Create Room is clicked: onCreateRoom() up to its first await, which is in
\* startHosting() at window.lan.hostStart(), or at the await of the value
\* startHosting() returns when Discovery.hosting is set
CreateCall(i) ==
  IF session.currentRoom # "none" THEN Stage(i, "host", "returned")
  ELSE IF session.hosting THEN Stage(i, "host", "getLocalIp")
  ELSE Stage(i, "host", "hostStart")
OnCreateRoom(i) ==
  /\ session.calls[i] = IdleCall
  /\ session' = [session EXCEPT !.calls = CreateCall(i)]
  /\ SessionFrame

\* ipcMain.handle('host:start') for the request of call i
HostStartHandled(i) ==
  /\ session.calls[i].stage = "hostStart"
  /\ session' = [session EXCEPT
                   !.isHosting = TRUE,
                   !.calls = IF session.isHosting THEN Stage(i, "host", "refused")
                             ELSE Stage(i, "host", "accepted")]
  /\ SessionFrame

\* startHosting() resumes with the reply: it throws on a refusal, and
\* otherwise sets Discovery.hosting; onCreateRoom() then awaits getLocalIp()
StartHostingResumes(i) ==
  /\ session.calls[i].stage \in {"refused", "accepted"}
  /\ session' = [session EXCEPT
                   !.hosting = @ \/ session.calls[i].stage = "accepted",
                   !.calls = IF session.calls[i].stage = "accepted"
                             THEN Stage(i, "host", "getLocalIp")
                             ELSE Stage(i, "host", "thrown")]
  /\ SessionFrame

\* onCreateRoom() resumes with the address: currentRoom = {mode: 'host', ...},
\* then await rtc.initLocal()
GetLocalIpResumes(i) ==
  /\ session.calls[i].stage = "getLocalIp"
  /\ session' = [session EXCEPT !.currentRoom = "host",
                                !.calls = Stage(i, "host", "initLocal")]
  /\ SessionFrame

\* a room of the list is clicked: joinRoom(room) up to await rtc.initLocal()
JoinRoomCall(i) ==
  /\ session.calls[i] = IdleCall
  /\ session' = IF session.currentRoom # "none"
                THEN [session EXCEPT !.calls = Stage(i, "join", "returned")]
                ELSE [session EXCEPT !.currentRoom = "join",
                                     !.calls = Stage(i, "join", "initLocal")]
  /\ SessionFrame

\* rtc.initLocal() has returned: signaling = new SignalingClient(...) and
\* connect()
InitLocalResumes(i) ==
  /\ session.calls[i].stage = "initLocal"
  /\ session' = [session EXCEPT !.made = Append(@, session.calls[i].kind),
                                !.calls = Stage(i, session.calls[i].kind, "connect")]
  /\ SessionFrame

\* ws.onclose of the SignalingClient that the onCreateRoom() call i made:
\* its onClosed arms a timer when the instance is the host
HostOnClosed(i) ==
  /\ session.calls[i] = [kind |-> "host", stage |-> "connect"]
  /\ session' = [session EXCEPT
                   !.calls = Stage(i, "host", "closed"),
                   !.timers = IF session.currentRoom = "host" THEN @ + 1 ELSE @]
  /\ SessionFrame

\* the callback of such a timer: when the instance is still the host it
\* calls onCreateRoom(), here as the call i
ReconnectFire(i) ==
  /\ session.timers > 0
  /\ session.calls[i] = IdleCall
  /\ \A j \in Clicks : j < i => session.calls[j] # IdleCall
  /\ session' = [session EXCEPT
                   !.timers = @ - 1,
                   !.calls = IF session.currentRoom = "host" THEN CreateCall(i) ELSE @]
  /\ SessionFrame

NextSession ==
  \/ \E i \in Clicks : OnCreateRoom(i)
  \/ \E i \in Clicks : HostStartHandled(i)
  \/ \E i \in Clicks : StartHostingResumes(i)
  \/ \E i \in Clicks : GetLocalIpResumes(i)
  \/ \E i \in Clicks : JoinRoomCall(i)
  \/ \E i \in Clicks : InitLocalResumes(i)

\* No record of a remote id in WebRTCManager.peers
NoLink == [sig |-> "none", done |-> FALSE, offers |-> 0, failed |-> FALSE]

\* The renderer module after load: no room, no SignalingClient, an empty
\* WebRTCManager.
RendererInit ==
  /\ roomHost = 0
  /\ started = [c \in Clients |-> FALSE]
  /\ currentRoom = [c \in Clients |-> "none"]
  /\ exiting = [c \in Clients |-> FALSE]
  /\ signaling = [c \in Clients |-> FALSE]
  /\ ws = [c \in Clients |-> "none"]
  /\ promise = [c \in Clients |-> "none"]
  /\ peers = [c \in Clients |-> [p \in Clients |-> NoLink]]
  /\ openPcs = [c \in Clients |-> [p \in Clients |-> 0]]
  /\ tasks = [c \in Clients |-> {}]
  /\ userExits = 0
  /\ engineFailures = 0
  /\ crypto = [c \in Clients |-> NoRoom]
  /\ cryptoOps = [c \in Clients |-> <<>>]

\* ------------------------------------------------------------- Map helpers
\* A JavaScript Map is modelled as a sequence of [id, v] records in insertion
\* order: set() of an existing key keeps its position, delete() removes it.
MapKeys(m) == {m[i].id : i \in 1..Len(m)}
MapHas(m, k) == k \in MapKeys(m)
MapGet(m, k) == (CHOOSE i \in 1..Len(m) : m[i].id = k)
MapVal(m, k) == m[MapGet(m, k)].v
\* mutant: set() adds an entry also when the key is there
MapSetAppend(m, k, val) == Append(m, [id |-> k, v |-> val])

MapSet(m, k, val) ==
  IF MapHas(m, k) THEN [m EXCEPT ![MapGet(m, k)] = [id |-> k, v |-> val]]
  ELSE Append(m, [id |-> k, v |-> val])
MapDelete(m, k) == SelectSeq(m, LAMBDA e : e.id # k)

\* An event of a handler: a socket.send(msg) or a ws.terminate().
SendEv(s, m) == [kind |-> "send", sock |-> s, msg |-> m]
TermEv(s) == [kind |-> "terminate", sock |-> s, msg |-> Envelope("")]

\* Effect of a handler's events, in order, on the queues and the sockets:
\* a send on a socket that is not open delivers nothing (ws drops it, every
\* broadcast send sits in try/catch), and neither does a send to a client
\* end that is gone; terminate() destroys the connection.
RECURSIVE ApplyEvents(_, _, _)
ApplyEvents(ev, q, st) ==
  IF ev = <<>> THEN [q |-> q, st |-> st]
  ELSE LET e == Head(ev) IN
    IF e.kind = "send"
    THEN ApplyEvents(Tail(ev),
                     IF st[e.sock] = "open" /\ ~netClosed[e.sock]
                     THEN [q EXCEPT ![e.sock] = Append(@, e.msg)] ELSE q,
                     st)
    ELSE ApplyEvents(Tail(ev), q,
                     IF st[e.sock] = "open" THEN [st EXCEPT ![e.sock] = "terminated"] ELSE st)

\* ============================================================ relay server
\* mutant: the joiner is not filtered out of its own participants list
WelcomeParticipantsAll(info, clientId) ==
  [i \in 1..Len(info) |-> [clientId |-> info[i].id, name |-> info[i].v]]

\* main.js startWsServer(): the participants array of the welcome envelope
WelcomeParticipants(info, clientId) ==
  LET others == SelectSeq(info, LAMBDA e : e.id # clientId)
  IN [i \in 1..Len(others) |-> [clientId |-> others[i].id, name |-> others[i].v]]

\* mutant: the notices are broadcast before the welcome is sent
JoinEventsNoticeFirst(s, clientId, socks, info) ==
  LET welcome == [Envelope("welcome") EXCEPT !.you = clientId,
                    !.participants = WelcomeParticipants(info, clientId)]
      notice == [Envelope("peer-joined") EXCEPT !.clientId = clientId,
                    !.name = MapVal(info, clientId)]
      others == SelectSeq(socks, LAMBDA e : e.id # clientId)
  IN [i \in 1..Len(others) |-> SendEv(others[i].v, notice)] \o <<SendEv(s, welcome)>>

\* join branch, after both maps were set: socket.send(welcome) and then the
\* peer-joined notice to every other entry of clientIdToSocket, in Map order.
JoinEvents(s, clientId, socks, info) ==
  LET welcome == [Envelope("welcome") EXCEPT !.you = clientId,
                    !.participants = WelcomeParticipants(info, clientId)]
      notice == [Envelope("peer-joined") EXCEPT !.clientId = clientId,
                    !.name = MapVal(info, clientId)]
      others == SelectSeq(socks, LAMBDA e : e.id # clientId)
  IN <<SendEv(s, welcome)>> \o [i \in 1..Len(others) |-> SendEv(others[i].v, notice)]

\* mutant: peer-left is broadcast before the departed entry is deleted
LeaveEventsAll(clientId, socks, info) ==
  LET notice == [Envelope("peer-left") EXCEPT !.clientId = clientId,
                    !.name = IF MapHas(info, clientId) THEN MapVal(info, clientId) ELSE 0]
  IN [i \in 1..Len(socks) |-> SendEv(socks[i].v, notice)]

\* handleClientLeave(clientId): both maps lose the id, then peer-left goes to
\* every entry that is left in clientIdToSocket.
LeaveSockets(socks, clientId) == MapDelete(socks, clientId)
LeaveInfo(info, clientId) == MapDelete(info, clientId)
LeaveEvents(clientId, socks, info) ==
  LET notice == [Envelope("peer-left") EXCEPT !.clientId = clientId,
                    !.name = IF MapHas(info, clientId) THEN MapVal(info, clientId) ELSE 0]
      rest == LeaveSockets(socks, clientId)
  IN [i \in 1..Len(rest) |-> SendEv(rest[i].v, notice)]

\* mutant: the envelope is broadcast to every session
RelayEventsBroadcast(msg, socks) ==
  IF msg.to = NoId THEN <<>> ELSE [i \in 1..Len(socks) |-> SendEv(socks[i].v, msg)]

\* relay branch: the envelope goes, as it is, to the socket of msg.to
RelayEvents(msg, socks) ==
  IF msg.to = NoId \/ ~MapHas(socks, msg.to) THEN <<>>
  ELSE <<SendEv(MapVal(socks, msg.to), msg)>>

\* mutant: one loop that terminates each socket right after its end envelope
StopEventsInterleaved(broadcastEnd, socks) ==
  IF socks = <<>> THEN <<>>
  ELSE (IF broadcastEnd THEN <<SendEv(socks[1].v, Envelope("end"))>> ELSE <<>>)
       \o <<TermEv(socks[1].v)>>
       \o (IF broadcastEnd THEN [i \in 1..(Len(socks) - 1) |-> SendEv(socks[i + 1].v, Envelope("end"))] ELSE <<>>)
       \o [i \in 1..(Len(socks) - 1) |-> TermEv(socks[i + 1].v)]

\* stopWsServer(broadcastEnd): the end broadcast, then terminate() of every
\* socket of clientIdToSocket.
StopEvents(broadcastEnd, socks) ==
  (IF broadcastEnd THEN [i \in 1..Len(socks) |-> SendEv(socks[i].v, Envelope("end"))] ELSE <<>>)
  \o [i \in 1..Len(socks) |-> TermEv(socks[i].v)]

NoOp == [op |-> "none", sock |-> 0, msg |-> Envelope(""), events |-> <<>>]

\* lastOp of a specification that keeps no record of the handlers
Untraced == [op |-> "off", sock |-> 0, msg |-> Envelope(""), events |-> <<>>]

\* the record a handler leaves in lastOp
Record(rec) == IF lastOp = Untraced THEN Untraced ELSE rec

\* The handler's events reach the queues and the sockets.
Emit(op, s, msg, events) ==
  LET r == ApplyEvents(events, toClient, sockState) IN
  /\ toClient' = r.q
  /\ sockState' = r.st
  /\ lastOp' = Record([op |-> op, sock |-> s, msg |-> msg, events |-> events])

\* main.js after load, with S the connections that may come
RelayInitOn(S) ==
  /\ wsServer = FALSE
  /\ clientIdToSocket = <<>>
  /\ clientIdToInfo = <<>>
  /\ thisClientId = [s \in S |-> NoId]
  /\ sockState = [s \in S |-> "idle"]
  /\ toRelay = [s \in S |-> <<>>]
  /\ toClient = [s \in S |-> <<>>]
  /\ netClosed = [s \in S |-> FALSE]

\* startWsServer(port)
StartWsServer ==
  /\ ~wsServer
  /\ wsServer' = TRUE
  /\ lastOp' = Record(NoOp)
  /\ UNCHANGED <<clientIdToSocket, clientIdToInfo, thisClientId, sockState, toRelay,
                 toClient, netClosed>>

\* wsServer.on('connection'): a new socket with thisClientId = null
RelayOnConnection(s) ==
  /\ wsServer
  /\ sockState[s] = "idle"
  /\ ~netClosed[s]
  /\ sockState' = [sockState EXCEPT ![s] = "open"]
  /\ thisClientId' = [thisClientId EXCEPT ![s] = NoId]
  /\ lastOp' = Record(NoOp)
  /\ UNCHANGED <<wsServer, clientIdToSocket, clientIdToInfo, toRelay, toClient,
                 netClosed>>

\* a join branch that takes a join whatever its clientId
OnJoinAnyId(s, msg) ==
  LET socks == MapSet(clientIdToSocket, msg.clientId, s)
      info == MapSet(clientIdToInfo, msg.clientId, IF msg.name = 0 THEN Guest ELSE msg.name)
  IN /\ thisClientId' = [thisClientId EXCEPT ![s] = msg.clientId]
     /\ clientIdToSocket' = socks
     /\ clientIdToInfo' = info
     /\ Emit("join", s, msg, JoinEvents(s, msg.clientId, socks, info))

\* socket.on('message'), the join branch
OnJoin(s, msg) ==
  IF msg.clientId = NoId
  THEN /\ Emit("drop", s, msg, <<>>)
       /\ UNCHANGED <<clientIdToSocket, clientIdToInfo, thisClientId>>
  ELSE LET socks == MapSet(clientIdToSocket, msg.clientId, s)
           info == MapSet(clientIdToInfo, msg.clientId, IF msg.name = 0 THEN Guest ELSE msg.name)
       IN /\ thisClientId' = [thisClientId EXCEPT ![s] = msg.clientId]
          /\ clientIdToSocket' = socks
          /\ clientIdToInfo' = info
          /\ Emit("join", s, msg, JoinEvents(s, msg.clientId, socks, info))

\* socket.on('message'), the leave branch
OnLeave(s, msg) ==
  IF thisClientId[s] = NoId
  THEN /\ Emit("drop", s, msg, <<>>)
       /\ UNCHANGED <<clientIdToSocket, clientIdToInfo, thisClientId>>
  ELSE /\ clientIdToSocket' = LeaveSockets(clientIdToSocket, thisClientId[s])
       /\ clientIdToInfo' = LeaveInfo(clientIdToInfo, thisClientId[s])
       /\ Emit("leave", s, msg, LeaveEvents(thisClientId[s], clientIdToSocket, clientIdToInfo))
       /\ UNCHANGED thisClientId

\* socket.on('message'), the offer | answer | ice branch
OnRelay(s, msg) ==
  /\ Emit(IF RelayEvents(msg, clientIdToSocket) = <<>> THEN "drop" ELSE "relay", s, msg,
          RelayEvents(msg, clientIdToSocket))
  /\ UNCHANGED <<clientIdToSocket, clientIdToInfo, thisClientId>>

\* socket.on('message'): one envelope of connection s, handled to completion.
\* t = "garbage" is a frame JSON.parse rejects, t = "" a JSON value without t,
\* any other t an unknown tag: none of them matches a branch.
RelayHandle(s, msg) ==
  /\ sockState[s] = "open"
  /\ IF msg.t = "join" THEN OnJoin(s, msg)
     ELSE IF msg.t = "leave" THEN OnLeave(s, msg)
     ELSE IF msg.t \in {"offer", "answer", "ice"} THEN OnRelay(s, msg)
     ELSE /\ Emit("drop", s, msg, <<>>)
          /\ UNCHANGED <<clientIdToSocket, clientIdToInfo, thisClientId>>
  /\ UNCHANGED <<wsServer, netClosed>>

\* a relay that reads the envelope written last
RelayOnMessageLast(s) ==
  /\ toRelay[s] # <<>>
  /\ RelayHandle(s, toRelay[s][Len(toRelay[s])])
  /\ toRelay' = [toRelay EXCEPT ![s] = SubSeq(@, 1, Len(@) - 1)]

\* the next envelope in flight on connection s arrives
RelayOnMessage(s) ==
  /\ toRelay[s] # <<>>
  /\ RelayHandle(s, Head(toRelay[s]))
  /\ toRelay' = [toRelay EXCEPT ![s] = Tail(@)]

\* socket.on('close') of connection s
RelayCloseEvent(s) ==
  /\ sockState[s] \in {"open", "terminated"}
  /\ LET st == [sockState EXCEPT ![s] = "closed"]
         ev == IF thisClientId[s] = NoId THEN <<>>
               ELSE LeaveEvents(thisClientId[s], clientIdToSocket, clientIdToInfo)
         r == ApplyEvents(ev, toClient, st)
     IN /\ sockState' = r.st
        /\ toClient' = r.q
        /\ lastOp' = Record([op |-> "close", sock |-> s,
                             msg |-> [Envelope("") EXCEPT !.clientId = thisClientId[s]],
                             events |-> ev])
        /\ IF thisClientId[s] = NoId
           THEN UNCHANGED <<clientIdToSocket, clientIdToInfo>>
           ELSE /\ clientIdToSocket' = LeaveSockets(clientIdToSocket, thisClientId[s])
                /\ clientIdToInfo' = LeaveInfo(clientIdToInfo, thisClientId[s])
  /\ toRelay' = [toRelay EXCEPT ![s] = <<>>]
  \* the connection's closure is garbage from here on
  /\ thisClientId' = [thisClientId EXCEPT ![s] = NoId]
  /\ netClosed' = [netClosed EXCEPT ![s] = TRUE]
  /\ UNCHANGED wsServer

\* The close event fires once the client end is gone and what it sent has
\* been read, or after terminate(); what is still in flight is lost.
RelayOnClose(s) ==
  /\ \/ sockState[s] = "open" /\ netClosed[s] /\ toRelay[s] = <<>>
     \/ sockState[s] = "terminated"
  /\ RelayCloseEvent(s)

\* stopWsServer(broadcastEnd)
StopWsServer(broadcastEnd) ==
  /\ wsServer
  /\ Emit(IF broadcastEnd THEN "stopEnd" ELSE "stop", 0, Envelope(""),
          StopEvents(broadcastEnd, clientIdToSocket))
  /\ clientIdToSocket' = <<>>
  /\ clientIdToInfo' = <<>>
  /\ wsServer' = FALSE
  /\ UNCHANGED <<thisClientId, toRelay, netClosed>>

\* ------------------------------------------------- the relay's environment
\* Envelopes a connection may carry to the relay: every tag of the join,
\* leave and relay branches with present and missing fields, a frame that is
\* no JSON ("garbage"), JSON without t ("") and an unknown tag.  The join of
\* id 1 carries no name, the others carry one.
EnvEnvelopes ==
  {[Envelope("join") EXCEPT !.clientId = i, !.name = IF i = 1 THEN 0 ELSE i] : i \in {NoId} \cup Ids}
  \cup {Envelope("leave")}
  \cup {[Envelope(t) EXCEPT !.from = 1, !.to = i, !.payload = Sdp] :
          t \in {"offer", "answer", "ice"}, i \in {NoId} \cup Ids}
  \cup {Envelope("garbage"), Envelope(""), Envelope("bogus")}

\* The clients have read what the relay sent them, and the record of the last
\* handler has been looked at: the next event finds the relay settled.
Drained == (\A x \in Socks : toClient[x] = <<>>) /\ lastOp = NoOp

\* the clients read the envelopes of their connections
EnvRecv ==
  /\ ~Drained
  /\ toClient' = [x \in Socks |-> <<>>]
  /\ lastOp' = Record(NoOp)
  /\ UNCHANGED <<wsServer, clientIdToSocket, clientIdToInfo, thisClientId, sockState,
                 toRelay, netClosed>>

\* a client writes an envelope on its connection and the relay reads it
EnvSend(s, m) ==
  /\ Drained
  /\ ~netClosed[s]
  /\ RelayHandle(s, m)
  /\ UNCHANGED toRelay

\* a client closes its connection, or the connection breaks, or the socket
\* was terminated: the relay gets the close event
EnvClose(s) ==
  /\ Drained
  /\ RelayCloseEvent(s)

\* the server accepts the connections in the order of their numbers
EnvAccept(s) ==
  /\ \A x \in Socks : x < s => sockState[x] # "idle"
  /\ RelayOnConnection(s)

\* Connections are interchangeable: they are numbered in the order in which
\* the server accepts them.
EnvConnect(s) ==
  /\ Drained
  /\ \A x \in Socks : x < s => sockState[x] # "idle"
  /\ RelayOnConnection(s)

\* ------------------------------------------------------ relay server claims
RelayTypes == {"offer", "answer", "ice"}
SentTo(ev) == {ev[i].sock : i \in {j \in 1..Len(ev) : ev[j].kind = "send"}}

\* C5: in a join the welcome to the joining connection is the first thing
\* sent and every peer-joined notice of that join comes after it; a connection
\* that gets the notice of a later join has had its own welcome before (it
\* joined, so thisClientId is set, or it has closed since).
C5_WelcomeBeforeNotice ==
  lastOp.op = "join" =>
    LET ev == lastOp.events IN
      /\ Len(ev) >= 1
      /\ ev[1] = SendEv(lastOp.sock, ev[1].msg)
      /\ ev[1].msg.t = "welcome"
      /\ \A i \in 2..Len(ev) :
           /\ ev[i].kind = "send"
           /\ ev[i].msg.t = "peer-joined"
           /\ ev[i].msg.clientId = lastOp.msg.clientId
           /\ thisClientId[ev[i].sock] # NoId \/ sockState[ev[i].sock] # "open"
      \* the scenario: y joins after x, y's welcome lists x and x is notified
      /\ \A e \in {clientIdToSocket[i] : i \in 1..Len(clientIdToSocket)} :
           e.id # lastOp.msg.clientId =>
             /\ \E k \in 1..Len(ev[1].msg.participants) :
                  ev[1].msg.participants[k].clientId = e.id
             /\ \E i \in 2..Len(ev) : ev[i].sock = e.v

C5_Witness ==
  /\ lastOp.op = "join"
  /\ Len(lastOp.events) >= 2
  /\ lastOp.events[2].sock # lastOp.sock
  /\ Len(lastOp.events[1].msg.participants) >= 1

\* C6: the welcome carries you = the joiner's clientId and its participants
\* are exactly the other ids of the membership table, each once.
C6_WelcomeContents ==
  lastOp.op = "join" =>
    LET w == lastOp.events[1].msg
        listed == {w.participants[k].clientId : k \in 1..Len(w.participants)}
    IN /\ w.you = lastOp.msg.clientId
       /\ w.you = thisClientId[lastOp.sock]
       /\ listed = MapKeys(clientIdToSocket) \ {w.you}
       /\ Cardinality(listed) = Len(w.participants)

C6_Witness ==
  /\ lastOp.op = "join"
  /\ Len(lastOp.events[1].msg.participants) >= 1
  /\ lastOp.msg.clientId \in MapKeys(clientIdToSocket)

\* C7: after a leave envelope or a close of a joined connection the id is in
\* neither map and peer-left{id} was sent once to each session that remains,
\* and to nobody else; the departed connection is a recipient only if it
\* still holds a session under another id.
C7_LeaveBroadcast ==
  (lastOp.op \in {"leave", "close"} /\ (lastOp.op = "close" => lastOp.msg.clientId # NoId)) =>
    LET id == IF lastOp.op = "close" THEN lastOp.msg.clientId ELSE thisClientId[lastOp.sock]
        ev == lastOp.events
    IN /\ id # NoId
       /\ ~MapHas(clientIdToSocket, id)
       /\ ~MapHas(clientIdToInfo, id)
       /\ Len(ev) = Len(clientIdToSocket)
       /\ \A i \in 1..Len(ev) :
            /\ ev[i].kind = "send"
            /\ ev[i].sock = clientIdToSocket[i].v
            /\ ev[i].msg.t = "peer-left"
            /\ ev[i].msg.clientId = id
       /\ lastOp.sock \in SentTo(ev) =>
            \E i \in 1..Len(clientIdToSocket) : clientIdToSocket[i].v = lastOp.sock

C7_Witness ==
  /\ lastOp.op = "close"
  /\ lastOp.msg.clientId # NoId
  /\ Len(lastOp.events) >= 1
  /\ lastOp.sock \notin SentTo(lastOp.events)
  /\ toClient[lastOp.events[1].sock] # <<>>

\* C8: an offer, answer or ice envelope goes unchanged to the socket of the
\* session named by to and to no other; with no such session, or no to,
\* nothing is sent; the membership table is not touched either way.
C8_RelayState ==
  lastOp.msg.t \in RelayTypes =>
    IF lastOp.msg.to # NoId /\ MapHas(clientIdToSocket, lastOp.msg.to)
    THEN /\ lastOp.events = <<SendEv(MapVal(clientIdToSocket, lastOp.msg.to), lastOp.msg)>>
         /\ lastOp.op = "relay"
    ELSE /\ lastOp.events = <<>>
         /\ lastOp.op = "drop"
         /\ \A x \in Socks : toClient[x] = <<>>

C8_RelayToNamedOnly ==
  /\ []C8_RelayState
  /\ [][lastOp'.msg.t \in RelayTypes =>
          UNCHANGED <<clientIdToSocket, clientIdToInfo, thisClientId>>]_vars

C8_Witness ==
  /\ lastOp.op = "relay"
  /\ Len(clientIdToSocket) >= 2
  /\ \E x \in Socks : x # lastOp.sock /\ toClient[x] = <<lastOp.msg>>

\* C9: stop(true) sends end to every joined session before the first
\* terminate(), stop(false) sends nothing; either way every session's socket
\* is terminated, both maps are empty and no server is recorded.
C9_StopStep ==
  LET ev == lastOp'.events
      ends == {i \in 1..Len(ev) : ev[i].kind = "send"}
      terms == {i \in 1..Len(ev) : ev[i].kind = "terminate"}
  IN /\ clientIdToSocket' = <<>>
     /\ clientIdToInfo' = <<>>
     /\ wsServer' = FALSE
     /\ \A i \in ends : ev[i].msg = Envelope("end") /\ \A j \in terms : i < j
     /\ \A k \in 1..Len(clientIdToSocket) :
          /\ \E j \in terms : ev[j].sock = clientIdToSocket[k].v
          /\ sockState'[clientIdToSocket[k].v] # "open"
          /\ lastOp'.op = "stopEnd" => \E i \in ends : ev[i].sock = clientIdToSocket[k].v
     /\ lastOp'.op = "stop" => ends = {}

C9_Stop == [][lastOp'.op \in {"stop", "stopEnd"} => C9_StopStep]_vars

C9_Witness ==
  /\ lastOp.op = "stopEnd"
  /\ Len(lastOp.events) >= 4
  /\ \E x \in Socks : sockState[x] = "terminated" /\ toClient[x] = <<Envelope("end")>>

\* C20: the membership table holds at most one session for a clientId: no
\* two entries of clientIdToSocket, and no two of clientIdToInfo, carry the
\* same id, and both maps name the same ids, also after a second connection
\* has joined under an id that is in use.
C20_OneSessionPerId ==
  /\ \A i, j \in 1..Len(clientIdToSocket) :
        clientIdToSocket[i].id = clientIdToSocket[j].id => i = j
  /\ \A i, j \in 1..Len(clientIdToInfo) :
        clientIdToInfo[i].id = clientIdToInfo[j].id => i = j
  /\ MapKeys(clientIdToSocket) = MapKeys(clientIdToInfo)

\* a second connection has joined under the id of a connection that is open
C20_Witness ==
  /\ lastOp.op = "join"
  /\ \E x \in Socks : /\ x # lastOp.sock
                       /\ sockState[x] = "open"
                       /\ thisClientId[x] = lastOp.msg.clientId
  /\ MapVal(clientIdToSocket, lastOp.msg.clientId) = lastOp.sock

\* ================================================= discovery and presence
\* The main process of one instance, Me, and what the LAN brings it.  Time
\* is counted in ticks, TicksPerUnit to the time unit (1000 ms), up to
\* MaxUnits units; a timer fires at the tick it is due, and the handlers due
\* at one tick run in any order.
TicksPerUnit == 2
MaxUnits == 8
MaxTime == MaxUnits * TicksPerUnit
MaxInvites == 3
TtlUnits == 6
SweepUnits == 1
RoomUnits == 2
PeerUnits == 3
Ttl == TtlUnits * TicksPerUnit
\* a cleared timer, and a Map without the key
Off == -1
Absent == -1

Me == 1
Sources == {"room", "peer"}
\* the room Me hosts and the room of another host; Me and another instance
OwnRoom == 1
RemoteRoom == 2
RemotePeer == 2
RoomIds == {OwnRoom, RemoteRoom}
PeerIds == {Me, RemotePeer}
Period(k) == (IF k = "room" THEN RoomUnits ELSE PeerUnits) * TicksPerUnit

\* main.js after app.whenReady(): startDiscovery() has armed the sweep
DiscoveryInitOn(hosting) ==
  /\ now = 0
  /\ roomMap = [r \in RoomIds |-> Absent]
  /\ peerMap = [p \in PeerIds |-> Absent]
  /\ pruneInterval = SweepUnits * TicksPerUnit
  /\ announceInterval = (IF hosting THEN RoomUnits * TicksPerUnit ELSE Off)
  /\ peerAnnounceInterval = Off
  /\ isHosting = hosting
  /\ remoteTimers = [k \in Sources |-> [due |-> Off, heard |-> FALSE, since |-> Off]]
  /\ notified = <<>>
  /\ rooms = [r \in RoomIds |-> Absent]
  /\ emits = 0
  /\ discoverySocket = "open"
  /\ lastSent = [k \in Sources |-> Off]
  /\ shownInvitations = {}
  /\ banners = {}
  /\ delivered = [r \in RoomIds |-> [received |-> 0, banner |-> 0, system |-> 0]]

DiscoveryInit == DiscoveryInitOn(FALSE)

Due(t) == t # Off /\ t <= now

\* let myPeerInfo: set by startPeerAnnouncing() and cleared by
\* stopPeerAnnouncing(), together with the presence timer
MyPeerInfo == peerAnnounceInterval # Off

\* Array.from(map.values()): every entry of the Map
Keys(m) == {k \in DOMAIN m : m[k] # Absent}

\* sendRoomsUpdate(): the rooms-update notification; old is a note of the
\* entries in it that were last refreshed more than the TTL ago
RoomsUpdate(rm) ==
  [kind |-> "rooms", ids |-> Keys(rm), data |-> rm,
   old |-> {r \in Keys(rm) : now - rm[r] > Ttl}]

\* sendPeersUpdate(): every entry of peerMap, and the current user when
\* myPeerInfo is set
PeersUpdate(pm) ==
  [kind |-> "peers", ids |-> Keys(pm) \cup (IF MyPeerInfo THEN {Me} ELSE {}), data |-> pm,
   old |-> {p \in Keys(pm) : now - pm[p] > Ttl}]

\* mutant: the sweep removes what is as old as one announcement period
PruneEager(m) ==
  [k \in DOMAIN m |-> IF m[k] # Absent /\ now - m[k] >= RoomUnits * TicksPerUnit
                      THEN Absent ELSE m[k]]

\* the sweep of one Map: delete what was last seen more than 6000 ms ago
Prune(m) == [k \in DOMAIN m |-> IF m[k] # Absent /\ now - m[k] > Ttl THEN Absent ELSE m[k]]

\* DiscoveryController._updateRooms(v): the list v of room data (each entry
\* with the ts of its announcement) replaces rooms when its JSON text is
\* another one, and then _emit() calls the observers
UpdateRooms(cur, v) ==
  IF cur = v THEN [rooms |-> cur, changed |-> FALSE]
  ELSE [rooms |-> v, changed |-> TRUE]

\* The handler sent the notifications ns; DiscoveryController takes the
\* rooms of a rooms-update.
Notify(ns) ==
  LET rs == SelectSeq(ns, LAMBDA n : n.kind = "rooms")
      u == IF rs = <<>> THEN [rooms |-> rooms, changed |-> FALSE]
           ELSE UpdateRooms(rooms, rs[Len(rs)].data)
  IN /\ notified' = ns
     /\ rooms' = u.rooms
     /\ emits' = IF u.changed THEN 1 - emits ELSE emits

worldVars == <<relayVars, rendererVars, unitVars>>
inviteVars == <<shownInvitations, banners, delivered>>

\* time passes once every handler that is due has run
Tick ==
  /\ now < MaxTime
  /\ ~Due(pruneInterval) /\ ~Due(announceInterval) /\ ~Due(peerAnnounceInterval)
  /\ \A k \in Sources : ~Due(remoteTimers[k].due)
  /\ now' = now + 1
  /\ UNCHANGED <<roomMap, peerMap, pruneInterval, announceInterval, peerAnnounceInterval,
                 isHosting, remoteTimers, notified, rooms, emits>>
  /\ UNCHANGED <<discoverySocket, lastSent, inviteVars, worldVars>>

\* the callback of pruneInterval
PruneTick ==
  /\ Due(pruneInterval)
  /\ pruneInterval' = now + SweepUnits * TicksPerUnit
  /\ LET rm == Prune(roomMap)
         pm == Prune(peerMap)
     IN /\ roomMap' = rm
        /\ peerMap' = pm
        /\ Notify((IF rm # roomMap THEN <<RoomsUpdate(rm)>> ELSE <<>>)
                  \o (IF pm # peerMap THEN <<PeersUpdate(pm)>> ELSE <<>>))
  /\ UNCHANGED <<now, announceInterval, peerAnnounceInterval, isHosting, remoteTimers>>
  /\ UNCHANGED <<discoverySocket, lastSent, inviteVars, worldVars>>

\* discoverySocket.on('message'), the announce branch
OnAnnounce(r) ==
  LET rm == [roomMap EXCEPT ![r] = now] IN
  /\ roomMap' = rm
  /\ Notify(<<RoomsUpdate(rm)>>)
  /\ UNCHANGED peerMap

\* discoverySocket.on('message'), the peer-presence branch
OnPeerPresence(p) ==
  IF MyPeerInfo /\ p = Me
  THEN Notify(<<>>) /\ UNCHANGED <<roomMap, peerMap>>
  ELSE LET pm == [peerMap EXCEPT ![p] = now] IN
       /\ peerMap' = pm
       /\ Notify(<<PeersUpdate(pm)>>)
       /\ UNCHANGED roomMap

\* startAnnouncing(): sendAnnouncement() at once, its datagram coming back to
\* the instance's own listener (setMulticastLoopback(true)), and every
\* 2000 ms from then on
StartAnnouncing ==
  /\ announceInterval' = now + Period("room")
  /\ roomMap' = [roomMap EXCEPT ![OwnRoom] = now]
  /\ lastSent' = [lastSent EXCEPT !["room"] = now]

\* stopAnnouncing()
StopAnnouncing == announceInterval' = Off

\* host:start besides startWsServer(): startAnnouncing(), isHosting = true,
\* sendPeersUpdate(); then the rooms-update of the first announcement
HostStart ==
  /\ ~isHosting
  /\ StartAnnouncing
  /\ isHosting' = TRUE
  /\ Notify(<<PeersUpdate(peerMap), RoomsUpdate(roomMap')>>)
  /\ UNCHANGED <<now, peerMap, pruneInterval, peerAnnounceInterval, remoteTimers, discoverySocket, inviteVars, unitVars>>

\* mutant: host:stop leaves the announcement timer armed
HostStopKeepsTimer ==
  /\ isHosting
  /\ isHosting' = FALSE
  /\ Notify(<<PeersUpdate(peerMap)>>)
  /\ UNCHANGED <<now, roomMap, peerMap, pruneInterval, announceInterval, lastSent,
                 peerAnnounceInterval, remoteTimers, discoverySocket, inviteVars, unitVars>>

\* host:stop besides stopWsServer(true): stopAnnouncing(), isHosting = false,
\* sendPeersUpdate()
HostStop ==
  /\ isHosting
  /\ StopAnnouncing
  /\ isHosting' = FALSE
  /\ Notify(<<PeersUpdate(peerMap)>>)
  /\ UNCHANGED <<now, roomMap, peerMap, pruneInterval, peerAnnounceInterval, lastSent, remoteTimers, discoverySocket, inviteVars, unitVars>>

\* sendAnnouncement(), the callback of announceInterval, and the datagram
\* coming back to the instance's own listener
SendAnnouncement ==
  /\ Due(announceInterval)
  /\ announceInterval' = now + Period("room")
  /\ IF discoverySocket = "open"
     THEN lastSent' = [lastSent EXCEPT !["room"] = now] /\ OnAnnounce(OwnRoom)
     ELSE Notify(<<>>) /\ UNCHANGED <<lastSent, roomMap, peerMap>>
  /\ UNCHANGED <<now, pruneInterval, peerAnnounceInterval, isHosting, remoteTimers>>
  /\ UNCHANGED <<discoverySocket, inviteVars, worldVars>>

\* peer:init at the start of the renderer: startPeerAnnouncing() (the peer
\* list it sends 500 ms later holds what peerMap holds then)
PeerInit ==
  /\ now = 0
  /\ peerAnnounceInterval = Off
  /\ peerAnnounceInterval' = now
  /\ UNCHANGED <<now, roomMap, peerMap, pruneInterval, announceInterval, isHosting,
                 remoteTimers, notified, rooms, emits>>
  /\ UNCHANGED <<discoverySocket, lastSent, inviteVars, worldVars>>

\* sendPeerPresence(), the callback of peerAnnounceInterval, and the datagram
\* coming back to the instance's own listener
SendPeerPresence ==
  /\ Due(peerAnnounceInterval)
  /\ peerAnnounceInterval' = now + Period("peer")
  /\ IF discoverySocket = "open"
     THEN lastSent' = [lastSent EXCEPT !["peer"] = now] /\ OnPeerPresence(Me)
     ELSE Notify(<<>>) /\ UNCHANGED <<lastSent, roomMap, peerMap>>
  /\ UNCHANGED <<now, pruneInterval, announceInterval, isHosting, remoteTimers>>
  /\ UNCHANGED <<discoverySocket, inviteVars, worldVars>>

\* a datagram of another instance reaches Me (received) or is lost
RemoteDatagram(k, received) ==
  IF ~received \/ discoverySocket # "open" THEN Notify(<<>>) /\ UNCHANGED <<roomMap, peerMap>>
  ELSE IF k = "room" THEN OnAnnounce(RemoteRoom)
  ELSE OnPeerPresence(RemotePeer)

\* another instance starts hosting a room / announcing its presence, one in
\* a run: its first datagram leaves at once; heard says that every datagram
\* it has sent since was received
RemoteStart(k, received) ==
  /\ \A j \in Sources : remoteTimers[j].since = Off
  /\ remoteTimers' = [remoteTimers EXCEPT ![k] = [due |-> now + Period(k),
                                                 heard |-> received, since |-> now]]
  /\ RemoteDatagram(k, received)
  /\ UNCHANGED <<now, pruneInterval, announceInterval, peerAnnounceInterval, isHosting>>
  /\ UNCHANGED <<discoverySocket, lastSent, inviteVars, worldVars>>

\* it stops, or leaves the LAN
RemoteStop(k) ==
  /\ remoteTimers[k].due # Off
  /\ remoteTimers' = [remoteTimers EXCEPT ![k].due = Off]
  /\ UNCHANGED <<now, roomMap, peerMap, pruneInterval, announceInterval,
                 peerAnnounceInterval, isHosting, notified, rooms, emits>>
  /\ UNCHANGED <<discoverySocket, lastSent, inviteVars, worldVars>>

\* its timer fires; the datagram reaches Me (received) or is lost
RemoteAnnounce(k, received) ==
  /\ Due(remoteTimers[k].due)
  /\ remoteTimers' = [remoteTimers EXCEPT ![k].due = now + Period(k),
                                         ![k].heard = @ /\ received]
  /\ RemoteDatagram(k, received)
  /\ UNCHANGED <<now, pruneInterval, announceInterval, peerAnnounceInterval, isHosting>>
  /\ UNCHANGED <<discoverySocket, lastSent, inviteVars, worldVars>>

\* showInAppNotification(message): a banner, unless the document holds one
\* with the same message
ShowInApp(bs, message) == IF message \in bs THEN bs ELSE bs \cup {message}

\* discoverySocket.on('message'), the invitation branch, for the invitation
\* to room r (its roomId, hostIp, wsPort and roomName): invitation-received
\* to the renderer, whose handleInvitationReceived() shows a banner for a key
\* it has not seen, then showNotification(): a system notification where
\* the platform has them (supported), and show-notification to the renderer
ReceiveInvitation(r, targeted, supported) ==
  /\ delivered[r].received < MaxInvites
  /\ IF MyPeerInfo /\ targeted
     THEN LET first == r \notin shownInvitations
              b1 == IF first THEN ShowInApp(banners, r) ELSE banners
              b2 == ShowInApp(b1, r)
              shown == (IF b1 # banners THEN 1 ELSE 0) + (IF b2 # b1 THEN 1 ELSE 0)
          IN /\ shownInvitations' = shownInvitations \cup {r}
             /\ banners' = b2
             /\ delivered' = [delivered EXCEPT ![r] =
                                [received |-> @.received + 1,
                                 banner |-> @.banner + shown,
                                 system |-> @.system + (IF supported THEN 1 ELSE 0)]]
     ELSE UNCHANGED inviteVars
  /\ UNCHANGED <<now, roomMap, peerMap, pruneInterval, announceInterval,
                 peerAnnounceInterval, isHosting, remoteTimers, notified, rooms, emits>>
  /\ UNCHANGED <<discoverySocket, lastSent, worldVars>>

\* What the discovery socket may receive.  parsed = FALSE is a datagram that
\* JSON.parse rejects; a field that the JSON value does not have is "" (t)
\* or 0 (roomId, peerId, roomName).
NoName == 0
Datagram(parsed, t, roomId, peerId, roomName) ==
  [parsed |-> parsed, t |-> t, roomId |-> roomId, peerId |-> peerId, roomName |-> roomName]
Datagrams ==
  {Datagram(FALSE, "", NoRoom, NoId, NoName), Datagram(TRUE, "", RemoteRoom, RemotePeer, NoName),
   Datagram(TRUE, "bogus", RemoteRoom, RemotePeer, RemoteRoom)}
  \cup {Datagram(TRUE, "announce", r, NoId, r) : r \in {NoRoom, RemoteRoom}}
  \cup {Datagram(TRUE, "peer-presence", NoRoom, q, NoName) : q \in {NoId, RemotePeer}}
  \cup {Datagram(TRUE, "invitation", r, RemotePeer, n) : r \in {NoRoom, RemoteRoom},
                                                         n \in {NoName, RemoteRoom}}

\* discoverySocket.on('message') for the datagram d, all branches
DiscoveryOnMessage(d, targeted, supported) ==
  /\ discoverySocket = "open"
  /\ IF d.parsed /\ d.t = "invitation" /\ d.roomId # NoRoom /\ d.roomName # NoName
     THEN ReceiveInvitation(d.roomId, targeted, supported)
     ELSE /\ IF d.parsed /\ d.t = "announce" /\ d.roomId # NoRoom
               THEN OnAnnounce(d.roomId)
             ELSE IF d.parsed /\ d.t = "peer-presence" /\ d.peerId # NoId
               THEN OnPeerPresence(d.peerId)
             ELSE Notify(<<>>) /\ UNCHANGED <<roomMap, peerMap>>
          /\ lastOp' = Record([op |-> "datagram", sock |-> 0, msg |-> d, events |-> <<>>])
          /\ UNCHANGED <<now, pruneInterval, announceInterval, peerAnnounceInterval,
                         isHosting, remoteTimers, discoverySocket, lastSent, inviteVars>>
          /\ UNCHANGED <<wsServer, clientIdToSocket, clientIdToInfo, thisClientId,
                         sockState, toRelay, toClient, netClosed>>
          /\ UNCHANGED <<rendererVars, unitVars>>

\* the user closes the banner with message r
CloseBanner(r) ==
  /\ r \in banners
  /\ banners' = banners \ {r}
  /\ UNCHANGED <<shownInvitations, delivered>>
  /\ UNCHANGED <<now, roomMap, peerMap, pruneInterval, announceInterval,
                 peerAnnounceInterval, isHosting, remoteTimers, notified, rooms, emits>>
  /\ UNCHANGED <<discoverySocket, lastSent, worldVars>>

\* =========================================================== CryptoManager
\* Sizes are scaled down: a byte is a number below ByteMod, the nonce has
\* IvLength bytes and the authentication tag TagLength bytes.  ArgLimit
\* stands for the number of arguments the JavaScript engine accepts in one
\* call (String.fromCharCode(...combined) passes one argument for every
\* byte), a limit that every build has, and messages have up to MaxLen
\* bytes, which is more than a call takes.
ByteMod == 4
IvLength == 2
TagLength == 1
MaxLen == 3
ArgLimit == 5

Byte == 0..(ByteMod - 1)
Ivs == [1..IvLength -> Byte]
Rooms == 1..2

RECURSIVE Sum(_)
Sum(seq) == IF seq = <<>> THEN 0 ELSE Head(seq) + Sum(Tail(seq))

\* byte sequences of length 0..n
RECURSIVE SeqsUpTo(_)
SeqsUpTo(n) ==
  IF n = 0 THEN {<<>>}
  ELSE SeqsUpTo(n - 1) \cup {Append(q, b) : q \in {x \in SeqsUpTo(n - 1) : Len(x) = n - 1}, b \in Byte}

\* the result of a call that returns v, and the result of one that throws
Returned(v) == [ok |-> TRUE, v |-> v]
Thrown == [ok |-> FALSE, v |-> <<>>]

\* init(): PBKDF2 over the room id with the fixed salt, the same key for the
\* same room id
DeriveKey(roomId) == (2 * roomId + 1) % ByteMod

\* crypto.subtle.encrypt, AES-GCM: a ciphertext as long as the data, that
\* depends on the key, the nonce and the position, followed by the tag over
\* the key, the nonce and the ciphertext
GcmStream(key, iv, data, sign) ==
  [i \in 1..Len(data) |-> (data[i] + sign * (key + Sum(iv) + i) + 4 * ByteMod * MaxLen) % ByteMod]
GcmTag(key, iv, ct) ==
  [j \in 1..TagLength |-> (key + Sum(iv) + Sum(ct) + Len(ct) + j) % ByteMod]
GcmSeal(key, iv, data) ==
  LET ct == GcmStream(key, iv, data, 1) IN ct \o GcmTag(key, iv, ct)

\* mutant: the tag is not verified
GcmOpenUnverified(key, iv, enc) ==
  IF Len(enc) < TagLength THEN Thrown
  ELSE Returned(GcmStream(key, iv, SubSeq(enc, 1, Len(enc) - TagLength), -1))

\* crypto.subtle.decrypt, AES-GCM: rejects an input shorter than the tag and
\* one whose tag does not match
GcmOpen(key, iv, enc) ==
  IF Len(enc) < TagLength THEN Thrown
  ELSE LET ct == SubSeq(enc, 1, Len(enc) - TagLength)
           tag == SubSeq(enc, Len(enc) - TagLength + 1, Len(enc))
       IN IF tag # GcmTag(key, iv, ct) THEN Thrown
          ELSE Returned(GcmStream(key, iv, ct, -1))

\* A string is a sequence of code units below ByteMod; the last of them,
\* Wide, is not ASCII and takes two bytes in UTF-8, and Replacement is what
\* a decoder gives for bytes that are no UTF-8.
Wide == ByteMod - 1
Replacement == ByteMod

\* new TextEncoder().encode(str)
RECURSIVE TextEncode(_)
TextEncode(str) ==
  IF str = <<>> THEN <<>>
  ELSE (IF Head(str) = Wide THEN <<Wide, 0>> ELSE <<Head(str)>>) \o TextEncode(Tail(str))

\* new TextDecoder().decode(bytes)
RECURSIVE TextDecode(_)
TextDecode(bytes) ==
  IF bytes = <<>> THEN <<>>
  ELSE IF Head(bytes) # Wide THEN <<Head(bytes)>> \o TextDecode(Tail(bytes))
  ELSE IF Len(bytes) >= 2 /\ bytes[2] = 0 THEN <<Wide>> \o TextDecode(Tail(Tail(bytes)))
  ELSE <<Replacement>> \o TextDecode(Tail(bytes))

\* btoa(): two base64 digits for a byte (a digit is a number below 2, or the
\* quotient of the byte by 2)
RECURSIVE Btoa(_)
Btoa(bytes) ==
  IF bytes = <<>> THEN <<>>
  ELSE <<Head(bytes) \div 2, Head(bytes) % 2>> \o Btoa(Tail(bytes))

\* atob(): throws on a text that is no base64
RECURSIVE AtobBytes(_)
AtobBytes(text) ==
  IF Len(text) < 2 THEN <<>>
  ELSE <<2 * text[1] + text[2]>> \o AtobBytes(Tail(Tail(text)))
Atob(text) ==
  IF Len(text) % 2 # 0 \/ \E i \in 1..Len(text) : i % 2 = 0 /\ text[i] > 1 THEN Thrown
  ELSE IF \E b \in 1..Len(AtobBytes(text)) : AtobBytes(text)[b] \notin Byte THEN Thrown
  ELSE Returned(AtobBytes(text))

\* String.fromCharCode(...combined): a RangeError when the call has more
\* arguments than the engine accepts
FromCharCode(bytes) == IF Len(bytes) > ArgLimit THEN Thrown ELSE Returned(bytes)

\* mutant: the string is built without a spread call
FromCharCodeChunked(bytes) == Returned(bytes)

\* encrypt(plaintext) with the nonce iv that crypto.getRandomValues() gave
Encrypt(roomId, iv, plaintext) ==
  LET combined == iv \o GcmSeal(DeriveKey(roomId), iv, TextEncode(plaintext))
      str == FromCharCode(combined)
  IN IF str.ok THEN Returned(Btoa(str.v)) ELSE Thrown

\* decrypt(encryptedData)
Decrypt(roomId, encryptedData) ==
  LET combined == Atob(encryptedData) IN
  IF ~combined.ok THEN Thrown
  ELSE LET iv == SubSeq(combined.v, 1, IF Len(combined.v) < IvLength THEN Len(combined.v) ELSE IvLength)
           encrypted == SubSeq(combined.v, IvLength + 1, Len(combined.v))
           decrypted == GcmOpen(DeriveKey(roomId), iv, encrypted)
       IN IF ~decrypted.ok THEN Thrown ELSE Returned(TextDecode(decrypted.v))

\* encryptBinary(data)
EncryptBinary(roomId, iv, data) == Returned(iv \o GcmSeal(DeriveKey(roomId), iv, data))

\* decryptBinary(encryptedData)
DecryptBinary(roomId, encryptedData) ==
  LET iv == SubSeq(encryptedData, 1, IF Len(encryptedData) < IvLength THEN Len(encryptedData) ELSE IvLength)
      encrypted == SubSeq(encryptedData, IvLength + 1, Len(encryptedData))
  IN GcmOpen(DeriveKey(roomId), iv, encrypted)

\* ------------------------------------------- CryptoManager, its key in time
\* the encrypt() / decrypt() calls made on one CryptoManager
MaxCalls == 3
Calls == 1..MaxCalls
NoKey == -1

\* new CryptoManager(roomId): this.key = null.  stage is where each call
\* stands: "idle" (not made), "import" (in init(), awaiting importKey),
\* "derive" (in init(), awaiting deriveKey), "use" (awaiting
\* crypto.subtle.encrypt / decrypt with this.key) or "done"; derivations
\* counts the deriveKey() runs and assignments the writes to this.key.
NewManager ==
  [room |-> 1, key |-> NoKey, stage |-> [i \in Calls |-> "idle"],
   derivations |-> 0, assignments |-> 0]

\* no receiver transform is set up
NoFrames == [room |-> NoRoom, frames |-> <<>>, out |-> <<>>]

\* encrypt() / decrypt(), call i, up to its first await: if (!this.key) await
\* this.init(), and init() returns at once only when this.key is set
CallCrypto(i) ==
  /\ manager.stage[i] = "idle"
  /\ manager' = [manager EXCEPT !.stage[i] = IF manager.key = NoKey THEN "import" ELSE "use"]
  /\ UNCHANGED <<relayVars, rendererVars, discoveryVars, cryptoRun, transform, sideVars>>

\* init() of call i: importKey() has resolved, deriveKey() is called
KeyImported(i) ==
  /\ manager.stage[i] = "import"
  /\ manager' = [manager EXCEPT !.stage[i] = "derive", !.derivations = @ + 1]
  /\ UNCHANGED <<relayVars, rendererVars, discoveryVars, cryptoRun, transform, sideVars>>

\* init() of call i: deriveKey() has resolved, this.key = its result, and
\* the caller goes on to crypto.subtle.encrypt / decrypt
KeyDerived(i) ==
  /\ manager.stage[i] = "derive"
  /\ manager' = [manager EXCEPT !.stage[i] = "use", !.key = DeriveKey(manager.room),
                                !.assignments = @ + 1]
  /\ UNCHANGED <<relayVars, rendererVars, discoveryVars, cryptoRun, transform, sideVars>>

\* crypto.subtle.encrypt / decrypt of call i has settled
CallSettled(i) ==
  /\ manager.stage[i] = "use"
  /\ manager' = [manager EXCEPT !.stage[i] = "done"]
  /\ UNCHANGED <<relayVars, rendererVars, discoveryVars, cryptoRun, transform, sideVars>>

\* ---------------------------------------------------- CryptoManager, used
\* no call to make
NoRun == [api |-> "none", room |-> NoRoom, m |-> <<>>, iv1 |-> <<>>, iv2 |-> <<>>,
          done |-> FALSE, out1 |-> Thrown, out2 |-> Thrown, back |-> Thrown]

\* the calls to make: the message m, the room and the nonces iv1 and iv2 that
\* crypto.getRandomValues() will give
CryptoInputs ==
  {[NoRun EXCEPT !.api = api, !.room = room, !.m = m, !.iv1 = iv1, !.iv2 = iv2] :
     api \in {"envelope", "frame"}, room \in Rooms, m \in SeqsUpTo(MaxLen),
     iv1 \in Ivs, iv2 \in Ivs}

\* m is encrypted twice, under the nonce iv1 and under the nonce iv2, and the
\* first output is decrypted: by encrypt() / decrypt() (api "envelope", m a
\* string) or by encryptBinary() / decryptBinary() (api "frame", m a
\* Uint8Array)
RoundTrip ==
  LET in == cryptoRun
      out1 == IF in.api = "envelope" THEN Encrypt(in.room, in.iv1, in.m)
              ELSE EncryptBinary(in.room, in.iv1, in.m)
      out2 == IF in.api = "envelope" THEN Encrypt(in.room, in.iv2, in.m)
              ELSE EncryptBinary(in.room, in.iv2, in.m)
      back == IF ~out1.ok THEN Thrown
              ELSE IF in.api = "envelope" THEN Decrypt(in.room, out1.v)
              ELSE DecryptBinary(in.room, out1.v)
  IN /\ in.api # "none"
     /\ ~in.done
     /\ cryptoRun' = [in EXCEPT !.done = TRUE, !.out1 = out1, !.out2 = out2, !.back = back]
     /\ UNCHANGED <<relayVars, rendererVars, discoveryVars, manager, transform, sideVars>>

\* C15: for every byte sequence m, of length 0, 1 and above 64KB, decrypting
\* what encrypt gave for m gives m again under the same room key, with
\* encrypt / decrypt and with encryptBinary / decryptBinary alike, and two
\* encryptions of m under different nonces give different outputs.
C15_RoundTrip ==
  cryptoRun.done =>
    /\ cryptoRun.out1.ok
    /\ cryptoRun.back.ok
    /\ cryptoRun.back.v = cryptoRun.m
    /\ cryptoRun.iv1 # cryptoRun.iv2 => cryptoRun.out1 # cryptoRun.out2

\* ------------------------------------------------------ relay server alone
notRelay == <<rendererVars, discoveryVars, unitVars>>

RelayInit ==
  /\ RelayInitOn(Socks)
  /\ RendererInit
  /\ DiscoveryInit
  /\ cryptoRun = NoRun
  /\ manager = NewManager
  /\ IdleSide
  /\ transform = NoFrames
  /\ lastOp = NoOp

NextRelay ==
  \/ Drained /\ StartWsServer /\ UNCHANGED notRelay
  \/ \E b \in BOOLEAN : Drained /\ StopWsServer(b) /\ UNCHANGED notRelay
  \/ \E s \in Socks : EnvConnect(s) /\ UNCHANGED notRelay
  \/ \E s \in Socks, m \in EnvEnvelopes : EnvSend(s, m) /\ UNCHANGED notRelay
  \/ EnvRecv /\ UNCHANGED notRelay
  \/ \E s \in Socks : EnvClose(s) /\ UNCHANGED notRelay

\* The relay server alone: the renderers do not run.
SpecRelay == RelayInit /\ [][NextRelay]_vars

\* The main process of one instance: its relay server and its discovery
\* socket, with whatever the connections and the LAN bring, one event at a
\* time.
NextInput ==
  \/ NextRelay
  \/ \E d \in Datagrams, targeted \in BOOLEAN, supported \in BOOLEAN :
       Drained /\ DiscoveryOnMessage(d, targeted, supported)

SpecInput == RelayInit /\ [][NextInput]_vars

\* ------------------------------------------------ the relay and its queues
\* The clients write on their connections faster than the relay reads: the
\* envelopes written on a connection wait in toRelay, and the relay's
\* message events take them one by one.  The client of connection s joins
\* under the clientId s and numbers what it writes: a join carries the
\* number as its name, an offer or candidate as its payload.  Nothing is
\* read from toClient, which so keeps all that was sent on each connection.
MaxWrites == 3
OrderTags == {"join", "offer", "ice"}
Numbered(s, t, k) ==
  IF t = "join" THEN [Envelope("join") EXCEPT !.clientId = s, !.name = k]
  ELSE [Envelope(t) EXCEPT !.from = s, !.to = CHOOSE r \in Socks : r # s, !.payload = <<k>>]

ClientWrites(s, t) ==
  /\ sockState[s] = "open"
  /\ Len(written[s]) < MaxWrites
  /\ written' = [written EXCEPT ![s] = Append(@, t)]
  /\ toRelay' = [toRelay EXCEPT ![s] = Append(@, Numbered(s, t, Len(written[s]) + 1))]
  /\ UNCHANGED <<wsServer, clientIdToSocket, clientIdToInfo, thisClientId, sockState,
                 toClient, netClosed, lastOp>>
  /\ UNCHANGED <<rendererVars, discoveryVars, cryptoVars, session>>

OrderInit ==
  /\ RelayInitOn(Socks)
  /\ RendererInit
  /\ DiscoveryInit
  /\ cryptoRun = NoRun
  /\ manager = NewManager
  /\ IdleSide
  /\ transform = NoFrames
  /\ lastOp = Untraced

NextOrder ==
  \/ StartWsServer /\ UNCHANGED notRelay
  \/ \E s \in Socks : EnvAccept(s) /\ UNCHANGED notRelay
  \/ \E s \in Socks, t \in OrderTags : ClientWrites(s, t)
  \/ \E s \in Socks : RelayOnMessage(s) /\ UNCHANGED notRelay

SpecOrder == OrderInit /\ [][NextOrder]_vars

CryptoInit ==
  /\ RelayInitOn(Socks)
  /\ RendererInit
  /\ DiscoveryInit
  /\ cryptoRun \in CryptoInputs
  /\ manager = NewManager
  /\ IdleSide
  /\ transform = NoFrames
  /\ lastOp = NoOp

\* One CryptoManager of an instance that does nothing else: the round trip
\* of every message of up to MaxLen bytes.
SpecCrypto == CryptoInit /\ [][RoundTrip]_vars

\* ------------------------------------------------ the receiver transform
MaxFrames == 2
FrameRoom == 1
FrameIv == [i \in 1..IvLength |-> i % ByteMod]

\* what encryptBinary() of the sender gives for the frame data
SealedFrame(roomId, data) == EncryptBinary(roomId, FrameIv, data).v

\* The encoded frames a receiver gets: frames sealed under the key of the
\* room, and frames that decryptBinary() rejects: one sealed under another
\* key, one with its last byte changed, one cut off within the nonce, one cut
\* off after it, and one that was never encrypted.
FrameInputs ==
  { SealedFrame(FrameRoom, <<1>>),
    SealedFrame(FrameRoom, <<2, 0>>),
    SealedFrame(CHOOSE r \in Rooms : DeriveKey(r) # DeriveKey(FrameRoom), <<1>>),
    [SealedFrame(FrameRoom, <<1>>) EXCEPT ![Len(SealedFrame(FrameRoom, <<1>>))] = (@ + 1) % ByteMod],
    SubSeq(SealedFrame(FrameRoom, <<1>>), 1, IvLength - 1),
    SubSeq(SealedFrame(FrameRoom, <<1>>), 1, IvLength),
    <<>> }

RECURSIVE FrameSeqs(_)
FrameSeqs(n) ==
  IF n = 0 THEN {<<>>}
  ELSE FrameSeqs(n - 1) \cup {Append(q, f) : q \in {x \in FrameSeqs(n - 1) : Len(x) = n - 1},
                                            f \in FrameInputs}

\* _setupReceiverDecryption(): the transform() of the TransformStream, for
\* the next encoded frame: what decryptBinary() returns is enqueued, and the
\* encoded frame as it came when decryptBinary() throws.  The stream calls
\* transform() for a frame when the promise of the frame before has settled.
ReceiverTransform ==
  /\ transform.frames # <<>>
  /\ LET encodedFrame == Head(transform.frames)
         decryptedData == DecryptBinary(transform.room, encodedFrame)
     IN transform' = [transform EXCEPT !.frames = Tail(@),
                        !.out = Append(@, IF decryptedData.ok THEN decryptedData.v
                                          ELSE encodedFrame)]
  /\ UNCHANGED <<relayVars, rendererVars, discoveryVars, cryptoRun, manager, sideVars>>

FramesInit ==
  /\ RelayInitOn(Socks)
  /\ RendererInit
  /\ DiscoveryInit
  /\ cryptoRun = NoRun
  /\ manager = NewManager
  /\ IdleSide
  /\ transform \in {[room |-> FrameRoom, frames |-> fs, out |-> <<>>] :
                      fs \in FrameSeqs(MaxFrames) \ {<<>>}}
  /\ lastOp = NoOp

\* One receiver transform and the frames that reach it, up to MaxFrames.
SpecFrames == FramesInit /\ [][ReceiverTransform]_vars

KeyInit ==
  /\ RelayInitOn(Socks)
  /\ RendererInit
  /\ DiscoveryInit
  /\ cryptoRun = NoRun
  /\ manager = NewManager
  /\ IdleSide
  /\ transform = NoFrames
  /\ lastOp = NoOp

NextKey ==
  \/ \E i \in Calls : CallCrypto(i)
  \/ \E i \in Calls : KeyImported(i)
  \/ \E i \in Calls : KeyDerived(i)
  \/ \E i \in Calls : CallSettled(i)

\* One CryptoManager and up to MaxCalls calls of encrypt() / decrypt() on
\* it, started and settled in any order.
SpecKey == KeyInit /\ [][NextKey]_vars

\* One renderer whose user clicks Create Room and rooms of the list, up to
\* MaxClicks times, at any moment.
SessionInit == KeyInit
SpecSession == SessionInit /\ [][NextSession]_vars

NextReconnect ==
  \/ \E i \in Clicks : OnCreateRoom(i)
  \/ \E i \in Clicks : HostStartHandled(i)
  \/ \E i \in Clicks : StartHostingResumes(i)
  \/ \E i \in Clicks : GetLocalIpResumes(i)
  \/ \E i \in Clicks : InitLocalResumes(i)
  \/ \E i \in Clicks : HostOnClosed(i)
  \/ \E i \in Clicks : ReconnectFire(i)

\* One renderer that hosts, whose connection to its own relay closes at any
\* moment.
SpecReconnect == SessionInit /\ [][NextReconnect]_vars

\* ========================================================= WebRTCManager
\* The WebRTCManager of instance c: its peers map, the RTCPeerConnections it
\* has open and the handlers suspended on a Media Engine call.
Rtc(c) == [peers |-> peers[c], pcs |-> openPcs[c], tasks |-> tasks[c]]

\* _createPeerConnection(): a new RTCPeerConnection, signalingState stable
NewLink == [sig |-> "stable", done |-> FALSE, offers |-> 0, failed |-> FALSE]

\* mutant: hasPeer() answers false whatever the map holds
HasPeerNever(r, p) == FALSE

\* hasPeer(peerId)
HasPeer(r, p) == r.peers[p].sig # "none"

\* _ensurePeer(peerId): the pc of the map, or a new one put into the map
EnsurePeer(r, p) ==
  IF r.peers[p].sig # "none" THEN r
  ELSE [r EXCEPT !.peers[p] = NewLink, !.pcs[p] = @ + 1]

\* What pc.close() does to the handlers suspended on the pcs of the remote
\* ids P: the promise of a call in flight on a closed RTCPeerConnection is
\* never settled, so the handler stays where it is.  A welcome loop that has
\* ids left to visit is kept, as a stale task.
CloseTasks(ts, P) ==
  {t \in ts : t.peer \notin P} \cup
  {[t EXCEPT !.stale = TRUE] : t \in {u \in ts : u.peer \in P /\ u.rest # <<>>}}

\* removePeer(peerId): pc.close() and peers.delete()
RemovePeer(r, p) ==
  IF r.peers[p].sig = "none" THEN r
  ELSE [r EXCEPT !.peers[p] = NoLink, !.pcs[p] = @ - 1, !.tasks = CloseTasks(@, {p})]

\* cleanup(): removePeer() of every key of the map
Cleanup(r) ==
  [peers |-> [p \in DOMAIN r.peers |-> NoLink],
   pcs |-> [p \in DOMAIN r.pcs |-> IF r.peers[p].sig = "none" THEN r.pcs[p] ELSE r.pcs[p] - 1],
   tasks |-> CloseTasks(r.tasks, {p \in DOMAIN r.peers : r.peers[p].sig # "none"})]

\* mutant: every instance offers to every peer it learns of
ShouldOfferAlways(c, p) == TRUE

\* mutant: the greater id offers
ShouldOfferGreater(c, p) == c > p

\* renderer.js: if (clientId < p.clientId)
ShouldOffer(c, p) == c < p

\* A handler suspended at an await on the pc of remote id p; rest is what the
\* welcome loop still has to visit once this await is over.
Task(kind, p, rest) == [kind |-> kind, peer |-> p, stale |-> FALSE, rest |-> rest]

\* mutant: the welcome loop stops at its first await
RunLoopOnce(c, r, seq) ==
  IF seq = <<>> \/ HasPeer(r, Head(seq)) \/ ~ShouldOffer(c, Head(seq)) THEN r
  ELSE [EnsurePeer(r, Head(seq)) EXCEPT !.tasks = @ \cup {Task("offer", Head(seq), <<>>)}]

\* onWelcome's for loop (onPeerJoined is the loop over one id), run up to its
\* next await: ids that have a link or that are to offer themselves are
\* passed over; createOfferTo() of the first other id gets its pc from
\* _ensurePeer() and suspends at pc.createOffer(), or returns null at once
\* when the pc holds a remote offer.
RECURSIVE RunLoop(_, _, _)
RunLoop(c, r, seq) ==
  IF seq = <<>> THEN r
  ELSE LET p == Head(seq) IN
    IF HasPeer(r, p) \/ ~ShouldOffer(c, p) THEN RunLoop(c, r, Tail(seq))
    ELSE LET r1 == EnsurePeer(r, p) IN
      IF r1.peers[p].sig = "have-remote-offer" THEN RunLoop(c, r1, Tail(seq))
      ELSE [r1 EXCEPT !.tasks = @ \cup {Task("offer", p, Tail(seq))}]

\* mutant: handleOffer() goes on whatever the signaling state
HandleOfferAlways(r, from) ==
  [EnsurePeer(r, from) EXCEPT !.tasks = @ \cup {Task("setRemote", from, <<>>)}]

\* mutant: handleOffer() returns when the map has no record
HandleOfferExisting(r, from) ==
  IF r.peers[from].sig \in {"none", "have-local-offer"} THEN r
  ELSE [r EXCEPT !.tasks = @ \cup {Task("setRemote", from, <<>>)}]

\* handleOffer(from), up to its first await
HandleOffer(r, from) ==
  LET r1 == EnsurePeer(r, from) IN
    IF r1.peers[from].sig = "have-local-offer" THEN r1
    ELSE [r1 EXCEPT !.tasks = @ \cup {Task("setRemote", from, <<>>)}]

\* mutant: handleAnswer() applies the answer to whatever pc the map has
HandleAnswerAlways(r, from, ok) ==
  IF r.peers[from].sig = "none" THEN r
  ELSE IF ~ok THEN [r EXCEPT !.peers[from].failed = TRUE]
  ELSE [r EXCEPT !.peers[from].sig = "stable", !.peers[from].done = TRUE]

\* handleAnswer(from): setRemoteDescription(answer) of a pc that has a local
\* offer; ok = FALSE is the call rejecting.
HandleAnswer(r, from, ok) ==
  IF r.peers[from].sig # "have-local-offer" THEN r
  ELSE IF ~ok THEN [r EXCEPT !.peers[from].failed = TRUE]
  ELSE [r EXCEPT !.peers[from].sig = "stable", !.peers[from].done = TRUE]

\* mutant: handleIce() gets its pc from _ensurePeer()
HandleIceEnsures(r, from, candidate) ==
  [r |-> EnsurePeer(r, from),
   calls |-> IF candidate = <<>> THEN <<>>
             ELSE <<[kind |-> "addIceCandidate", sock |-> from,
                     msg |-> [Envelope("ice") EXCEPT !.from = from, !.payload = candidate]]>>]

\* handleIce(from, candidate): without a record it returns; new
\* RTCIceCandidate(null) throws and addIceCandidate() may reject, inside a
\* try whose catch logs at most.  calls are the Media Engine calls made; the
\* map and the pcs' signaling states stay as they are.
HandleIce(r, from, candidate) ==
  [r |-> r,
   calls |-> IF r.peers[from].sig = "none" \/ candidate = <<>> THEN <<>>
             ELSE <<[kind |-> "addIceCandidate", sock |-> from,
                     msg |-> [Envelope("ice") EXCEPT !.from = from, !.payload = candidate]]>>]

\* RTCPeerConnection: the signaling states in which the awaited call succeeds
EngineAccepts(kind, sig) ==
  \/ kind = "offer" /\ sig \in {"stable", "have-local-offer"}
  \/ kind = "setRemote" /\ sig \in {"stable", "have-remote-offer", "have-local-offer"}
  \/ kind = "answer" /\ sig = "have-remote-offer"

Signal(t, c, p) == [Envelope(t) EXCEPT !.from = c, !.to = p, !.payload = Sdp]

\* mutant: a rejected createOffer() ends the welcome loop
ResumeAborts(c, r, t, ok) ==
  LET p == t.peer
      r0 == [r EXCEPT !.tasks = @ \ {t}]
  IN IF ~ok \/ ~EngineAccepts(t.kind, r.peers[p].sig)
     THEN [r |-> [r0 EXCEPT !.peers[p].failed = TRUE], out |-> <<>>]
     ELSE IF t.kind = "offer"
     THEN [r |-> RunLoop(c, [r0 EXCEPT !.peers[p].sig = "have-local-offer",
                                       !.peers[p].offers = @ + 1], t.rest),
           out |-> <<Signal("offer", c, p)>>]
     ELSE IF t.kind = "setRemote"
     THEN [r |-> [r0 EXCEPT !.peers[p].sig = "have-remote-offer",
                            !.tasks = @ \cup {Task("answer", p, <<>>)}],
           out |-> <<>>]
     ELSE [r |-> [r0 EXCEPT !.peers[p].sig = "stable", !.peers[p].done = TRUE],
           out |-> <<Signal("answer", c, p)>>]

\* The handler suspended as task t resumes: the awaited Media Engine call
\* rejects (ok = FALSE, a closed pc, a signaling state that forbids it) and
\* the handler's catch logs it, or it succeeds and the handler goes on to its
\* send.  out is what the handler hands to the SignalingClient.
Resume(c, r, t, ok) ==
  LET p == t.peer
      r0 == [r EXCEPT !.tasks = @ \ {t}]
      rF == IF t.stale THEN r0 ELSE [r0 EXCEPT !.peers[p].failed = TRUE]
  IN IF t.stale \/ ~ok \/ ~EngineAccepts(t.kind, r.peers[p].sig)
     THEN [r |-> IF t.kind = "offer" THEN RunLoop(c, rF, t.rest) ELSE rF, out |-> <<>>]
     ELSE IF t.kind = "offer"
     THEN [r |-> RunLoop(c, [r0 EXCEPT !.peers[p].sig = "have-local-offer",
                                       !.peers[p].offers = @ + 1], t.rest),
           out |-> <<Signal("offer", c, p)>>]
     ELSE IF t.kind = "setRemote"
     THEN [r |-> [r0 EXCEPT !.peers[p].sig = "have-remote-offer",
                            !.tasks = @ \cup {Task("answer", p, <<>>)}],
           out |-> <<>>]
     ELSE [r |-> [r0 EXCEPT !.peers[p].sig = "stable", !.peers[p].done = TRUE],
           out |-> <<Signal("answer", c, p)>>]

\* ================================================================ renderer
relayCore == <<wsServer, clientIdToSocket, clientIdToInfo, thisClientId, sockState>>

\* SignalingClient.send(): the envelopes leave only through a client that is
\* still held (signaling is not null) and whose socket is OPEN; what is
\* written to a connection the relay has destroyed goes nowhere.
Sent(c, wsNow, out) ==
  IF signaling[c] /\ wsNow = "open" /\ sockState[c] = "open"
  THEN toRelay[c] \o out ELSE toRelay[c]

\* SignalingClient constructor: this.crypto = roomId ? new CryptoManager(roomId) : null
NewCrypto(roomId) == roomId

\* the roomId of the object onCreateRoom() and joinRoom() construct the
\* SignalingClient from: { url, clientId, name, handlers }
CtorRoomId == NoRoom

\* send(): the branch that awaits this.crypto.encrypt()
NeedsEncrypt(c, m) == m.t \in RelayTypes /\ crypto[c] # NoRoom /\ m.payload # <<>>

\* ws.onmessage: the branch that awaits this.crypto.decrypt()
NeedsDecrypt(c, m) ==
  m.t \in RelayTypes /\ crypto[c] # NoRoom /\ m.encrypted /\ m.payload # <<>>

\* JSON.parse() of a decrypted text: a JSON text starts as Sdp does
JsonParse(text) == IF text # <<>> /\ text[1] = Sdp[1] THEN Returned(text) ELSE Thrown

\* the calls of send() / ws.onmessage suspended in encrypt() / decrypt()
CryptoOp(dir, m) == [dir |-> dir, msg |-> m]
Suspended(dir, ms) == [i \in 1..Len(ms) |-> CryptoOp(dir, ms[i])]

\* One handler of instance c, run to its end or to its next await, with the
\* socket in state wsNow: r is the WebRTCManager it leaves behind, out what it
\* hands to the SignalingClient, exit whether it calls onExit().  onExit() of
\* a joiner: leave(), close(), signaling = null, rtc.cleanup(), currentRoom =
\* null; it returns at once when there is no room (and a host's handlers do
\* not call it).  inbox is what stays in flight to the instance; a socket
\* that is no longer OPEN fires no message event, so it is dropped then.
\* ops are the calls that stay suspended in the CryptoManager; send() of an
\* envelope that is to be encrypted checks readyState and suspends, the
\* others are written at once.
RendererStepWith(c, wsNow, r, out, exit, inbox, ops) ==
  LET leaving == exit /\ currentRoom[c] = "join"
      r2 == IF leaving THEN Cleanup(r) ELSE r
      bye == IF leaving THEN <<[Envelope("leave") EXCEPT !.clientId = c]>> ELSE <<>>
      wsNext == IF leaving /\ signaling[c] /\ wsNow \in {"connecting", "open"}
                THEN "closing" ELSE wsNow
      direct == SelectSeq(out \o bye, LAMBDA m : ~NeedsEncrypt(c, m))
      secret == IF signaling[c] /\ wsNow = "open"
                THEN SelectSeq(out, LAMBDA m : NeedsEncrypt(c, m)) ELSE <<>>
  IN /\ peers' = [peers EXCEPT ![c] = r2.peers]
     /\ openPcs' = [openPcs EXCEPT ![c] = r2.pcs]
     /\ tasks' = [tasks EXCEPT ![c] = r2.tasks]
     /\ toRelay' = [toRelay EXCEPT ![c] = Sent(c, wsNow, direct)]
     /\ cryptoOps' = [cryptoOps EXCEPT ![c] = ops \o Suspended("enc", secret)]
     /\ UNCHANGED <<crypto, discoveryVars, unitVars>>
     /\ ws' = [ws EXCEPT ![c] = wsNext]
     /\ toClient' = [toClient EXCEPT ![c] = IF wsNext = "open" THEN inbox ELSE <<>>]
     /\ netClosed' = [netClosed EXCEPT ![c] = @ \/ wsNext \in {"closing", "closed"}]
     /\ signaling' = [signaling EXCEPT ![c] = @ /\ ~leaving]
     /\ currentRoom' = [currentRoom EXCEPT ![c] = IF leaving THEN "none" ELSE @]
     /\ UNCHANGED <<roomHost, started, exiting>>
     /\ UNCHANGED relayCore

RendererStep(c, wsNow, r, out, exit, inbox) ==
  RendererStepWith(c, wsNow, r, out, exit, inbox, cryptoOps[c])

ParticipantIds(msg) == [i \in 1..Len(msg.participants) |-> msg.participants[i].clientId]

\* SignalingClient ws.onmessage and the handler of renderer.js it calls;
\* welcome also resolves the promise of connect().  ok = FALSE is the
\* setRemoteDescription() of an answer, or the addIceCandidate() of a
\* candidate, rejecting.
ClientHandleWith(c, msg, ok, inbox, ops) ==
  LET r == Rtc(c) IN
  /\ ok \/ /\ \/ msg.t = "answer" /\ peers[c][msg.from].sig = "have-local-offer"
              \/ msg.t = "ice" /\ HandleIce(r, msg.from, msg.payload).calls # <<>>
           /\ engineFailures < MaxFailures
  /\ engineFailures' = IF ok THEN engineFailures ELSE engineFailures + 1
  /\ UNCHANGED userExits
  /\ promise' = [promise EXCEPT ![c] =
                   IF msg.t = "welcome" /\ @ = "pending" THEN "resolved" ELSE @]
  /\ lastOp' = Record([op |-> "recv", sock |-> c, msg |-> msg,
                       events |-> IF msg.t = "ice" THEN HandleIce(r, msg.from, msg.payload).calls
                                  ELSE <<>>])
  /\ IF msg.t = "welcome"
       THEN RendererStepWith(c, ws[c], RunLoop(c, r, ParticipantIds(msg)), <<>>, FALSE, inbox, ops)
     ELSE IF msg.t = "peer-joined"
       THEN RendererStepWith(c, ws[c], RunLoop(c, r, <<msg.clientId>>), <<>>, FALSE, inbox, ops)
     ELSE IF msg.t = "peer-left"
       THEN RendererStepWith(c, ws[c], RemovePeer(r, msg.clientId), <<>>, FALSE, inbox, ops)
     ELSE IF msg.t = "offer"
       THEN RendererStepWith(c, ws[c], HandleOffer(r, msg.from), <<>>, FALSE, inbox, ops)
     ELSE IF msg.t = "answer"
       THEN RendererStepWith(c, ws[c], HandleAnswer(r, msg.from, ok), <<>>, FALSE, inbox, ops)
     ELSE IF msg.t = "ice"
       THEN RendererStepWith(c, ws[c], HandleIce(r, msg.from, msg.payload).r, <<>>, FALSE, inbox, ops)
     ELSE IF msg.t = "end"
       THEN RendererStepWith(c, ws[c], r, <<>>, TRUE, inbox, ops)
     ELSE RendererStepWith(c, ws[c], r, <<>>, FALSE, inbox, ops)

ClientHandle(c, msg, ok, inbox) == ClientHandleWith(c, msg, ok, inbox, cryptoOps[c])

\* ws.onmessage up to its first await: an encrypted envelope suspends in
\* decrypt(), any other goes to its handler
ClientReceive(c, msg, ok, inbox) ==
  IF NeedsDecrypt(c, msg)
  THEN /\ ok
       /\ cryptoOps' = [cryptoOps EXCEPT ![c] = Append(@, CryptoOp("dec", msg))]
       /\ toClient' = [toClient EXCEPT ![c] = inbox]
       /\ lastOp' = Record(NoOp)
       /\ UNCHANGED <<relayCore, toRelay, netClosed, discoveryVars, unitVars>>
       /\ UNCHANGED <<roomHost, started, currentRoom, exiting, signaling, ws, promise,
                      peers, openPcs, tasks, userExits, engineFailures, crypto>>
  ELSE ClientHandle(c, msg, ok, inbox)

\* the next envelope in flight to instance c arrives; a socket that is not
\* OPEN fires no message event
ClientOnMessage(c, ok) ==
  /\ ws[c] = "open"
  /\ toClient[c] # <<>>
  /\ ClientReceive(c, Head(toClient[c]), ok, Tail(toClient[c]))

\* The call i of instance c that is suspended in the CryptoManager completes;
\* the calls complete in any order.  send(): good = FALSE is encrypt()
\* throwing, and the envelope is not sent; otherwise ws.send() of the
\* envelope with the ciphertext under the nonce iv.  ws.onmessage: when
\* decrypt() or JSON.parse() throws it returns, otherwise the handler runs.
CryptoDone(c, i, iv, good, ok) ==
  /\ i \in 1..Len(cryptoOps[c])
  /\ LET op == cryptoOps[c][i]
         rest == SubSeq(cryptoOps[c], 1, i - 1) \o SubSeq(cryptoOps[c], i + 1, Len(cryptoOps[c]))
         quiet == /\ cryptoOps' = [cryptoOps EXCEPT ![c] = rest]
                  /\ UNCHANGED <<relayCore, toClient, netClosed, discoveryVars, unitVars>>
                  /\ UNCHANGED <<roomHost, started, currentRoom, exiting, signaling, ws,
                                 promise, peers, openPcs, tasks, userExits, engineFailures,
                                 crypto>>
     IN IF op.dir = "enc"
        THEN LET res == IF good THEN Encrypt(crypto[c], iv, op.msg.payload) ELSE Thrown
                 wire == [op.msg EXCEPT !.payload = res.v, !.encrypted = TRUE]
             IN /\ ok
                /\ toRelay' = [toRelay EXCEPT ![c] =
                                 IF res.ok /\ ws[c] = "open" /\ sockState[c] = "open"
                                 THEN Append(@, wire) ELSE @]
                /\ lastOp' = Record(NoOp)
                /\ quiet
        ELSE LET res == Decrypt(crypto[c], op.msg.payload)
                 obj == IF res.ok THEN JsonParse(res.v) ELSE Thrown
             IN /\ good
                /\ IF obj.ok
                   THEN ClientHandleWith(c, op.msg, ok, toClient[c], rest)
                   ELSE /\ ok
                        /\ lastOp' = Record([op |-> "dropped", sock |-> c, msg |-> op.msg,
                                             events |-> <<>>])
                        /\ UNCHANGED toRelay
                        /\ quiet

\* SignalingClient ws.onopen: the join envelope
ClientOnOpen(c) ==
  /\ ws[c] = "connecting"
  /\ sockState[c] = "open"
  /\ ws' = [ws EXCEPT ![c] = "open"]
  /\ toRelay' = [toRelay EXCEPT ![c] =
                   Append(@, [Envelope("join") EXCEPT !.clientId = c, !.name = c])]
  /\ UNCHANGED <<relayCore, toClient, netClosed, lastOp>>
  /\ UNCHANGED <<roomHost, started, currentRoom, exiting, signaling, promise, peers,
                 openPcs, tasks, userExits, engineFailures, crypto, cryptoOps>>
  /\ UNCHANGED <<discoveryVars, unitVars>>

\* SignalingClient ws.onclose (after ws.onerror when the connection could not
\* be opened): handlers.onClosed() and nothing else; what was in flight to the
\* instance is lost.  onClosed of a joiner calls onExit() when there is a
\* room; onClosed of a host arms a timer for onCreateRoom(), which returns at
\* its first line because currentRoom is set.
ClientOnClose(c) ==
  /\ \/ ws[c] = "closing"
     \/ ws[c] \in {"connecting", "open"} /\ sockState[c] \in {"terminated", "closed"}
     \/ ws[c] = "connecting" /\ ~wsServer /\ sockState[c] = "idle"
     \/ ws[c] \in {"connecting", "open"} /\ netClosed[c]
  /\ RendererStep(c, "closed", Rtc(c), <<>>, TRUE, <<>>)
  /\ lastOp' = Record(NoOp)
  /\ UNCHANGED <<promise, userExits, engineFailures>>

\* mutant: a transient loss of connectivity ends the link as well
TerminalOrDisconnected(st) == st \in {"failed", "closed", "disconnected"}

\* pc.onconnectionstatechange: the states that call removePeer()
Terminal(st) == st \in {"failed", "closed"}

ConnectionStates == {"connected", "disconnected", "failed", "closed"}

\* pc.onconnectionstatechange of the pc that instance c holds for remote id
\* p, with pc.connectionState = st.  The Media Engine reports a state only
\* for a pc that has been given a description: before that it has no
\* transport whose state could change.
ConnectionState(c, p, st) ==
  /\ peers[c][p].sig # "none"
  /\ peers[c][p].sig # "stable" \/ peers[c][p].done
  /\ RendererStep(c, ws[c], IF Terminal(st) THEN RemovePeer(Rtc(c), p) ELSE Rtc(c),
                  <<>>, FALSE, toClient[c])
  /\ lastOp' = Record([op |-> "state", sock |-> c,
                       msg |-> [Envelope(st) EXCEPT !.from = p], events |-> <<>>])
  /\ UNCHANGED <<promise, userExits, engineFailures>>

\* A handler suspended on a Media Engine call resumes.
TaskStep(c, t, ok) ==
  /\ t \in tasks[c]
  /\ ~t.stale
  /\ ok \/ engineFailures < MaxFailures
  /\ LET res == Resume(c, Rtc(c), t, ok)
     IN RendererStep(c, ws[c], res.r, res.out, FALSE, toClient[c])
  /\ engineFailures' = IF ok THEN engineFailures ELSE engineFailures + 1
  /\ lastOp' = Record(NoOp)
  /\ UNCHANGED <<promise, userExits>>

\* onCreateRoom(): Discovery.startHosting() has host:start start the relay
\* server and the then the host connects to the relay server
\* as a relay client.
CreateRoom(c) ==
  /\ roomHost = 0
  /\ currentRoom[c] = "none"
  /\ ~started[c]
  /\ StartWsServer
  /\ HostStart
  /\ crypto' = [crypto EXCEPT ![c] = NewCrypto(CtorRoomId)]
  /\ UNCHANGED cryptoOps
  /\ roomHost' = c
  /\ started' = [started EXCEPT ![c] = TRUE]
  /\ currentRoom' = [currentRoom EXCEPT ![c] = "host"]
  /\ signaling' = [signaling EXCEPT ![c] = TRUE]
  /\ ws' = [ws EXCEPT ![c] = "connecting"]
  /\ promise' = [promise EXCEPT ![c] = "pending"]
  /\ UNCHANGED <<exiting, peers, openPcs, tasks, userExits, engineFailures>>

\* joinRoom(room) of a room of the list
JoinRoom(c) ==
  /\ roomHost \notin {0, c}
  /\ currentRoom[c] = "none"
  /\ ~started[c]
  /\ started' = [started EXCEPT ![c] = TRUE]
  /\ currentRoom' = [currentRoom EXCEPT ![c] = "join"]
  /\ signaling' = [signaling EXCEPT ![c] = TRUE]
  /\ ws' = [ws EXCEPT ![c] = "connecting"]
  /\ promise' = [promise EXCEPT ![c] = "pending"]
  /\ crypto' = [crypto EXCEPT ![c] = NewCrypto(CtorRoomId)]
  /\ UNCHANGED <<roomHost, exiting, peers, openPcs, tasks, userExits, engineFailures,
                 cryptoOps>>
  /\ UNCHANGED <<relayVars, discoveryVars, unitVars>>

\* the Exit button of a joiner
Exit(c) ==
  /\ currentRoom[c] = "join"
  /\ userExits < MaxExits
  /\ userExits' = userExits + 1
  /\ RendererStep(c, ws[c], Rtc(c), <<>>, TRUE, toClient[c])
  /\ UNCHANGED <<promise, lastOp, engineFailures>>

\* the Exit button of the host, up to await Discovery.stopHosting()
ExitHost(c) ==
  /\ currentRoom[c] = "host"
  /\ ~exiting[c]
  /\ userExits < MaxExits
  /\ userExits' = userExits + 1
  /\ exiting' = [exiting EXCEPT ![c] = TRUE]
  /\ toRelay' = [toRelay EXCEPT ![c] =
                   Sent(c, ws[c], <<[Envelope("leave") EXCEPT !.clientId = c]>>)]
  /\ ws' = [ws EXCEPT ![c] = IF signaling[c] /\ @ \in {"connecting", "open"} THEN "closing" ELSE @]
  /\ netClosed' = [netClosed EXCEPT ![c] = @ \/ signaling[c]]
  /\ signaling' = [signaling EXCEPT ![c] = FALSE]
  /\ toClient' = [toClient EXCEPT ![c] = IF signaling[c] THEN <<>> ELSE @]
  /\ UNCHANGED <<relayCore, lastOp>>
  /\ UNCHANGED <<roomHost, started, currentRoom, promise, peers, openPcs, tasks,
                 engineFailures, crypto, cryptoOps>>
  /\ UNCHANGED <<discoveryVars, unitVars>>

\* onExit() of the host resumes: host:stop has run stopAnnouncing() and
\* stopWsServer(true), then rtc.cleanup() and currentRoom = null
ExitHostStop(c) ==
  /\ exiting[c]
  /\ StopWsServer(TRUE)
  /\ HostStop
  /\ UNCHANGED <<crypto, cryptoOps>>
  /\ exiting' = [exiting EXCEPT ![c] = FALSE]
  /\ currentRoom' = [currentRoom EXCEPT ![c] = "none"]
  /\ peers' = [peers EXCEPT ![c] = Cleanup(Rtc(c)).peers]
  /\ openPcs' = [openPcs EXCEPT ![c] = Cleanup(Rtc(c)).pcs]
  /\ tasks' = [tasks EXCEPT ![c] = Cleanup(Rtc(c)).tasks]
  /\ UNCHANGED <<roomHost, started, signaling, ws, promise, userExits, engineFailures>>

\* the relay server accepts the connection instance c is opening
Accept(c) ==
  /\ ws[c] = "connecting"
  /\ RelayOnConnection(c)
  /\ UNCHANGED <<rendererVars, discoveryVars, unitVars>>

MeetingInit ==
  /\ RelayInitOn(Clients)
  /\ RendererInit
  /\ DiscoveryInit
  /\ cryptoRun = NoRun
  /\ manager = NewManager
  /\ IdleSide
  /\ transform = NoFrames
  /\ lastOp = Untraced

\* What the handlers do once the users have made their choices.
Progress(ok) ==
  \/ \E c \in Clients : Accept(c)
  \/ \E c \in Clients : ClientOnOpen(c)
  \/ \E c \in Clients : RelayOnMessage(c) /\ UNCHANGED <<rendererVars, discoveryVars, unitVars>>
  \/ \E c \in Clients : ClientOnMessage(c, ok)
  \/ \E c \in Clients : \E t \in tasks[c] : TaskStep(c, t, ok)

Next ==
  \/ \E c \in Clients : CreateRoom(c)
  \/ \E c \in Clients : JoinRoom(c)
  \/ \E ok \in BOOLEAN : Progress(ok)

\* The relay server and the renderers of NumClients instances that create
\* and join one room, in any order and at any pace, with Media Engine calls
\* that may reject; nobody leaves.
Spec == MeetingInit /\ [][Next]_vars

NextMesh ==
  \/ \E c \in Clients : CreateRoom(c)
  \/ \E c \in Clients : JoinRoom(c)
  \/ Progress(TRUE)

\* Spec without a Media Engine call that rejects, and every event that is
\* pending is handled in the end: the event loops of the processes run, the
\* sockets deliver what was written.
SpecMesh == MeetingInit /\ [][NextMesh]_vars /\ WF_vars(Progress(TRUE))

NextLife ==
  \/ NextMesh
  \/ \E c \in Clients : RelayOnClose(c) /\ UNCHANGED <<rendererVars, discoveryVars, unitVars>>
  \/ \E c \in Clients : ClientOnClose(c)
  \/ \E c \in Clients : Exit(c)
  \/ \E c \in Clients : ExitHost(c)
  \/ \E c \in Clients : ExitHostStop(c)

\* The life of the room: the instances create, join and leave it (each at
\* most once), the host's exit stops the relay server.
SpecLife == MeetingInit /\ [][NextLife]_vars

\* The network between instance c and the relay at ws://hostIp:wsPort fails
\* before the welcome has come: the connection does not open, or breaks.
LinkBreaks(c) ==
  /\ ws[c] \in {"connecting", "open"}
  /\ promise[c] = "pending"
  /\ ~netClosed[c]
  /\ netClosed' = [netClosed EXCEPT ![c] = TRUE]
  /\ toClient' = [toClient EXCEPT ![c] = <<>>]
  /\ lastOp' = Record(NoOp)
  /\ UNCHANGED <<relayCore, toRelay, rendererVars, discoveryVars, unitVars>>

NextFail ==
  \/ NextMesh
  \/ \E c \in Clients : LinkBreaks(c)
  \/ \E c \in Clients : ClientOnClose(c)
  \/ \E c \in Clients : RelayOnClose(c) /\ UNCHANGED <<rendererVars, discoveryVars, unitVars>>

\* the instance that hosts the room that is ended: it has ids below and
\* above its own among the others
EndHost == 2

\* joinRoom(room) of the one instance that joins that room
JoinAlone(c) ==
  /\ \A x \in Clients \ {c} : x = roomHost \/ ~started[x]
  /\ JoinRoom(c)

NextEnd ==
  \/ CreateRoom(EndHost)
  \/ \E c \in Clients : JoinAlone(c)
  \/ Progress(TRUE)
  \/ \E c \in Clients : ExitHost(c)
  \/ \E c \in Clients : ExitHostStop(c)
  \/ \E c \in Clients : ClientOnClose(c)
  \/ \E c \in Clients : RelayOnClose(c) /\ UNCHANGED <<rendererVars, discoveryVars, unitVars>>

\* The room that its host ends, at any moment, for the instance that has
\* joined or is joining it.  Every event that is pending is handled in the
\* end, and host:stop returns.
SpecEnd ==
  /\ MeetingInit
  /\ [][NextEnd]_vars
  /\ WF_vars(Progress(TRUE))
  /\ WF_vars(\E c \in Clients : ExitHostStop(c))
  /\ WF_vars(\E c \in Clients : ClientOnClose(c))
  /\ WF_vars(\E c \in Clients : RelayOnClose(c) /\ UNCHANGED <<rendererVars, discoveryVars, unitVars>>)

\* The room with connections that fail before the welcome; nobody uses the
\* Exit button.
SpecFail == MeetingInit /\ [][NextFail]_vars

\* ------------------------------------------------- the directory over time
\* The main process of Me with its timers, the user starting and stopping
\* a room, and another host and another instance on the LAN that come, go
\* and lose datagrams.  No renderer connects to the relay server.
HostStartIpc == StartWsServer /\ HostStart /\ UNCHANGED rendererVars

HostStopIpc == StopWsServer(TRUE) /\ HostStop /\ UNCHANGED rendererVars

NextDirectory ==
  \/ Tick
  \/ PruneTick
  \/ PeerInit
  \/ SendPeerPresence
  \/ HostStartIpc
  \/ HostStopIpc
  \/ SendAnnouncement
  \/ \E k \in Sources, received \in BOOLEAN : RemoteStart(k, received)
  \/ \E k \in Sources : RemoteStop(k)
  \/ \E k \in Sources, received \in BOOLEAN : RemoteAnnounce(k, received)

SpecDirectory == MeetingInit /\ [][NextDirectory]_vars

\* ------------------------------------------------------- the application quits
\* stopPeerAnnouncing()
StopPeerAnnouncing == peerAnnounceInterval' = Off

\* stopDiscovery(): clearInterval(pruneInterval), then discoverySocket.close()
StopDiscovery ==
  /\ pruneInterval' = Off
  /\ discoverySocket' = "closed"

\* mutant: before-quit leaves the presence timer armed
QuitKeepsPresence ==
  /\ discoverySocket = "open"
  /\ StopAnnouncing
  /\ IF wsServer THEN StopWsServer(FALSE) ELSE UNCHANGED relayVars
  /\ StopDiscovery
  /\ UNCHANGED <<now, roomMap, peerMap, peerAnnounceInterval, isHosting, remoteTimers,
                 notified, rooms, emits, lastSent, inviteVars, rendererVars, unitVars>>

\* app.on('before-quit'): stopAnnouncing(), stopPeerAnnouncing(),
\* stopWsServer(false), stopDiscovery(); the tray and the window go after
Quit ==
  /\ discoverySocket = "open"
  /\ StopAnnouncing
  /\ StopPeerAnnouncing
  /\ IF wsServer THEN StopWsServer(FALSE) ELSE UNCHANGED relayVars
  /\ StopDiscovery
  /\ UNCHANGED <<now, roomMap, peerMap, isHosting, remoteTimers,
                 notified, rooms, emits, lastSent, inviteVars, rendererVars, unitVars>>

\* the renderer's calls reach the main process while the application runs
NextQuit ==
  \/ discoverySocket = "open" /\ (PeerInit \/ HostStartIpc \/ HostStopIpc)
  \/ Quit
  \/ Tick
  \/ PruneTick
  \/ SendPeerPresence
  \/ SendAnnouncement

\* The timers of Me over time, with the user starting and stopping a room
\* and quitting the application at any moment.
SpecQuit == MeetingInit /\ [][NextQuit]_vars

\* ------------------------------------------------------------ invitations
\* Invitations reach Me, to it or to others, any number of times up to
\* MaxInvites for a room, and the user closes banners.
NextInvite ==
  \/ PeerInit
  \/ \E r \in RoomIds, targeted \in BOOLEAN, supported \in BOOLEAN :
       ReceiveInvitation(r, targeted, supported)
  \/ \E r \in RoomIds : CloseBanner(r)

SpecInvite == MeetingInit /\ [][NextInvite]_vars

\* --------------------------------------------------- one renderer on its own
\* The instance whose renderer is fed envelopes: it has ids below and above
\* its own among its peers.
CoordId == 2
CoordPeers == Clients \ {CoordId}

\* participants arrays of up to two entries, an id twice among them
CoordLists ==
  {<<>>} \cup {<<[clientId |-> p, name |-> p]>> : p \in CoordPeers}
  \cup {<<[clientId |-> p, name |-> p], [clientId |-> q, name |-> q]>> :
          p \in CoordPeers, q \in CoordPeers}

\* What the connection may carry to the renderer: every tag ws.onmessage
\* knows, about every peer, and a JSON value without t.
CoordEnvelopes ==
  {[Envelope("welcome") EXCEPT !.you = CoordId, !.participants = ps] : ps \in CoordLists}
  \cup {[Envelope(t) EXCEPT !.clientId = p, !.name = p] :
          t \in {"peer-joined", "peer-left"}, p \in CoordPeers}
  \cup {Signal(t, p, CoordId) : t \in RelayTypes, p \in CoordPeers}
  \cup {Envelope("end"), Envelope("")}

\* Instance 1 hosts the room and is still connecting to its relay server,
\* instance CoordId has joined and its join envelope has been handled.
CoordInitOn(roomId) ==
  /\ wsServer = TRUE
  /\ clientIdToSocket = <<[id |-> CoordId, v |-> CoordId]>>
  /\ clientIdToInfo = <<[id |-> CoordId, v |-> CoordId]>>
  /\ thisClientId = [c \in Clients |-> IF c = CoordId THEN CoordId ELSE NoId]
  /\ sockState = [c \in Clients |-> IF c = CoordId THEN "open" ELSE "idle"]
  /\ toRelay = [c \in Clients |-> <<>>]
  /\ toClient = [c \in Clients |->
                   IF c = CoordId THEN <<[Envelope("welcome") EXCEPT !.you = CoordId]>> ELSE <<>>]
  /\ netClosed = [c \in Clients |-> FALSE]
  /\ lastOp = NoOp
  /\ roomHost = 1
  /\ started = [c \in Clients |-> c \in {1, CoordId}]
  /\ currentRoom = [c \in Clients |-> IF c = 1 THEN "host" ELSE IF c = CoordId THEN "join" ELSE "none"]
  /\ exiting = [c \in Clients |-> FALSE]
  /\ signaling = [c \in Clients |-> c \in {1, CoordId}]
  /\ ws = [c \in Clients |-> IF c = 1 THEN "connecting" ELSE IF c = CoordId THEN "open" ELSE "none"]
  /\ promise = [c \in Clients |-> IF c \in {1, CoordId} THEN "pending" ELSE "none"]
  /\ peers = [c \in Clients |-> [p \in Clients |-> NoLink]]
  /\ openPcs = [c \in Clients |-> [p \in Clients |-> 0]]
  /\ tasks = [c \in Clients |-> {}]
  /\ userExits = 0
  /\ engineFailures = 0
  /\ crypto = [c \in Clients |-> NewCrypto(IF c = CoordId THEN roomId ELSE CtorRoomId)]
  /\ cryptoOps = [c \in Clients |-> <<>>]
  /\ DiscoveryInitOn(TRUE)
  /\ cryptoRun = NoRun
  /\ manager = NewManager
  /\ IdleSide
  /\ transform = NoFrames

CoordInit == CoordInitOn(CtorRoomId)

\* the connection brings the renderer an envelope and ws.onmessage runs,
\* once what the renderer wrote has been read at the other end
CoordDeliver(m, ok) ==
  /\ ws[CoordId] = "open"
  /\ toClient[CoordId] = <<>>
  /\ toRelay[CoordId] = <<>>
  /\ ClientReceive(CoordId, m, ok, <<>>)

\* what the renderer wrote is read at the other end
CoordDrain ==
  /\ toRelay[CoordId] # <<>>
  /\ toRelay' = [toRelay EXCEPT ![CoordId] = <<>>]
  /\ lastOp' = NoOp
  /\ UNCHANGED <<relayCore, toClient, netClosed, rendererVars, discoveryVars, unitVars>>

NextCoord ==
  \/ \E m \in CoordEnvelopes, ok \in BOOLEAN : CoordDeliver(m, ok)
  \/ CoordDrain
  \/ \E ok \in BOOLEAN : ClientOnMessage(CoordId, ok)
  \/ \E ok \in BOOLEAN : \E t \in tasks[CoordId] : TaskStep(CoordId, t, ok)
  \/ ClientOnClose(CoordId)

\* One renderer, whatever its connection brings and in whatever order its
\* Media Engine calls complete.
SpecCoord == CoordInit /\ [][NextCoord]_vars

\* ------------------------------------------------- one renderer's links
\* What the connection may carry about the links: the notices of a peer
\* coming and going and the negotiation envelopes of both peers, a null
\* candidate among them.
LinkEnvelopes ==
  {[Envelope(t) EXCEPT !.clientId = p, !.name = p] :
      t \in {"peer-joined", "peer-left"}, p \in CoordPeers}
  \cup {Signal(t, p, CoordId) : t \in RelayTypes, p \in CoordPeers}
  \cup {[Signal("ice", p, CoordId) EXCEPT !.payload = <<>>] : p \in CoordPeers}

NextLink ==
  \/ \E m \in LinkEnvelopes, ok \in BOOLEAN : CoordDeliver(m, ok)
  \/ CoordDrain
  \/ \E ok \in BOOLEAN : ClientOnMessage(CoordId, ok)
  \/ \E ok \in BOOLEAN : \E t \in tasks[CoordId] : TaskStep(CoordId, t, ok)
  \/ \E p \in CoordPeers, st \in ConnectionStates : ConnectionState(CoordId, p, st)

\* One renderer in its room, whatever its peers send, whatever its
\* RTCPeerConnections report and in whatever order its Media Engine calls
\* complete.
SpecLink == CoordInit /\ [][NextLink]_vars

\* ------------------------------------- one SignalingClient with a room key
\* The SignalingClient of the instance was constructed with the roomId
\* WireRoom; the peer WirePeer encrypts under the nonce WireIv.
WireRoom == 1
WirePeer == 1
WireIv == [i \in 1..IvLength |-> i % ByteMod]
MaxOps == 2

\* what encrypt() of the peer gives for the JSON text of an sdp / a candidate
Sealed(roomId, text) == Encrypt(roomId, WireIv, text).v

\* the position of the last base64 digit of the ciphertext, before the tag
LastDigit(text) == Len(text) - 2 * TagLength

\* an envelope of the peer as another SignalingClient writes it
Wire(t, payload) ==
  [Signal(t, WirePeer, CoordId) EXCEPT !.payload = payload, !.encrypted = TRUE]

\* Encrypted envelopes whose decryption fails: the ciphertext of another
\* room key, a ciphertext with a bit flipped, one cut off after the nonce
\* and one cut off within the nonce, a text that is no base64, and the
\* ciphertext of a text that is no JSON.
WireBadPayloads ==
  { Sealed(CHOOSE r \in Rooms : DeriveKey(r) # DeriveKey(WireRoom), Sdp),
    [Sealed(WireRoom, Sdp) EXCEPT ![LastDigit(Sealed(WireRoom, Sdp))] = 1 - @],
    SubSeq(Sealed(WireRoom, Sdp), 1, 2 * IvLength),
    SubSeq(Sealed(WireRoom, Sdp), 1, 2 * (IvLength - 1)),
    SubSeq(Sealed(WireRoom, Sdp), 1, 2 * IvLength + 1),
    Sealed(WireRoom, <<0, Sdp[1]>>) }
WireBad == {Wire(t, p) : t \in RelayTypes, p \in WireBadPayloads}

\* What the connection may carry to the instance: the encrypted envelopes of
\* the peer, good and bad, plaintext ones, and the notices of the relay.
WireEnvelopes ==
  WireBad
  \cup {Wire(t, Sealed(WireRoom, Sdp)) : t \in RelayTypes}
  \cup {Signal(t, WirePeer, CoordId) : t \in RelayTypes}
  \cup {[Envelope(t) EXCEPT !.clientId = WirePeer, !.name = WirePeer] :
          t \in {"peer-joined", "peer-left"}}
  \cup {Envelope("end")}

WireInit == CoordInitOn(WireRoom)

\* the connection brings an envelope while few calls are suspended
WireDeliver(m, ok) ==
  /\ Len(cryptoOps[CoordId]) < MaxOps
  /\ CoordDeliver(m, ok)

NextWire ==
  \/ \E m \in WireEnvelopes, ok \in BOOLEAN : WireDeliver(m, ok)
  \/ \E i \in 1..MaxOps, good \in BOOLEAN, ok \in BOOLEAN :
       CryptoDone(CoordId, i, WireIv, good, ok)
  \/ CoordDrain
  \/ \E ok \in BOOLEAN : ClientOnMessage(CoordId, ok)
  \/ \E ok \in BOOLEAN : \E t \in tasks[CoordId] : TaskStep(CoordId, t, ok)
  \/ ClientOnClose(CoordId)

\* One renderer whose SignalingClient encrypts, whatever its connection
\* brings and in whatever order its calls complete.
SpecWire == WireInit /\ [][NextWire]_vars

\* -------------------------------------------------------- negotiation claims
\* how often envelope m is in flight, in either direction
Count(q, m) == Cardinality({i \in 1..Len(q) : q[i] = m})
InFlight(m) ==
  \E c \in Clients : Count(toRelay[c], m) + Count(toClient[c], m) > 0

\* createOfferTo(p) calls of instance c that are suspended on a live pc
OfferTasks(c, p) == {t \in tasks[c] : t.kind = "offer" /\ t.peer = p /\ ~t.stale}

\* the remote ids a welcome or a peer-joined notice tells of
Named(msg) ==
  IF msg.t = "welcome" THEN {msg.participants[i].clientId : i \in 1..Len(msg.participants)}
  ELSE IF msg.t = "peer-joined" THEN {msg.clientId}
  ELSE {}

\* Both ids hold a session of the relay and a has worked off what told it of
\* the others: its welcome, the notices it was sent, its welcome loop.
Settled(a, b) ==
  /\ MapHas(clientIdToSocket, a)
  /\ MapHas(clientIdToSocket, b)
  /\ promise[a] = "resolved"
  /\ \A i \in 1..Len(toClient[a]) : toClient[a][i].t \notin {"welcome", "peer-joined"}
  /\ \A t \in tasks[a] : t.kind # "offer"

\* C1: for ids a < b the greater id b never creates, holds or sends an offer
\* for a; a creates at most one; and once both are joined and a has worked
\* off its welcome and notices, a has a link to b on which exactly one offer
\* was created (unless a Media Engine call on it rejected) and that offer is
\* on its way to b or has reached it.
C1_DeterministicOfferer ==
  \A a \in Clients, b \in Clients : a < b =>
    /\ peers[b][a].offers = 0
    /\ OfferTasks(b, a) = {}
    /\ ~InFlight(Signal("offer", b, a))
    /\ peers[a][b].offers <= 1
    /\ \A c \in Clients : Count(toRelay[c], Signal("offer", a, b))
                          + Count(toClient[c], Signal("offer", a, b)) <= 1
    /\ Settled(a, b) =>
         /\ HasPeer(Rtc(a), b)
         /\ peers[a][b].offers = 1 \/ peers[a][b].failed
         /\ peers[a][b].offers = 1 =>
              InFlight(Signal("offer", a, b)) \/ HasPeer(Rtc(b), a)

\* b joined before a, a offered once, b never, and the exchange is complete
C1_Witness ==
  \E a \in Clients, b \in Clients :
    /\ a < b
    /\ Settled(a, b)
    /\ MapGet(clientIdToSocket, b) < MapGet(clientIdToSocket, a)
    /\ peers[a][b].offers = 1
    /\ peers[b][a].offers = 0
    /\ peers[a][b].done /\ peers[b][a].done

\* instance c handles the envelope at the head of its connection
Delivered(c) == ws[c] = "open" /\ toClient[c] # <<>> /\ toClient'[c] = Tail(toClient[c])

C2_State ==
  /\ \A c \in Clients, p \in Clients : c > p =>
       /\ peers[c][p].offers = 0
       /\ OfferTasks(c, p) = {}
       /\ \A x \in Clients : Count(toRelay[x], Signal("offer", c, p)) = 0
                             /\ Count(toClient[x], Signal("offer", c, p)) = 0
  /\ \A h \in Clients, p \in Clients :
       (roomHost = h /\ (\A x \in Clients : h <= x) /\ p # h /\ Settled(h, p)
          /\ ~peers[h][p].failed) => peers[h][p].offers = 1

C2_Step ==
  \A c \in Clients : Delivered(c) =>
    \A p \in Named(Head(toClient[c])) : c > p =>
      /\ peers'[c][p] = peers[c][p]
      /\ openPcs'[c][p] = openPcs[c][p]
      /\ {t \in tasks'[c] : t.peer = p} = {t \in tasks[c] : t.peer = p}
      /\ toRelay'[c] = toRelay[c]

\* C2: an instance never has an offer for a smaller id, created, being
\* created or in flight; handling a welcome or a peer-joined notice that
\* names a smaller id leaves its link to that id as it was (none is created)
\* and sends nothing; a host with the lowest id ends up with one offer to
\* each of the others.
C2_NoOfferToSmaller == []C2_State /\ [][C2_Step]_vars

\* host 1 has offered to 2 and 3, 2 has offered to 3, nobody else has, and
\* all three exchanges are complete
C2_Witness ==
  /\ roomHost = 1
  /\ \A c \in Clients, p \in Clients :
       c # p => /\ peers[c][p].done
                /\ peers[c][p].offers = (IF c < p THEN 1 ELSE 0)
  /\ \A c \in Clients : toClient[c] = <<>> /\ toRelay[c] = <<>>

C3_State ==
  \A c \in Clients, p \in Clients :
    /\ openPcs[c][p] = (IF HasPeer(Rtc(c), p) THEN 1 ELSE 0)
    /\ peers[c][p].offers <= 1
    /\ Cardinality(OfferTasks(c, p)) <= 1
    /\ OfferTasks(c, p) # {} => peers[c][p].offers = 0

C3_Step ==
  lastOp'.op = "recv" =>
    LET c == lastOp'.sock IN
      \A p \in Named(lastOp'.msg) : peers[c][p].sig # "none" =>
        /\ peers'[c][p] = peers[c][p]
        /\ openPcs'[c][p] = openPcs[c][p]
        /\ {t \in tasks'[c] : t.peer = p} = {t \in tasks[c] : t.peer = p}
        /\ toRelay'[c] = toRelay[c]

\* C3: each remote id has as many open RTCPeerConnections as it has entries
\* in the link map, one or none, with at most one offer created and at most
\* one being created on it; a welcome or a peer-joined notice that names an
\* id which has a link leaves the link, its pc and its suspended handlers as
\* they were and sends nothing.
C3_NoDuplicateLinks == []C3_State /\ [][C3_Step]_vars

\* a peer-joined notice for an id whose link has its offer out has just been
\* handled
C3_Witness ==
  /\ lastOp.op = "recv"
  /\ lastOp.msg.t = "peer-joined"
  /\ peers[lastOp.sock][lastOp.msg.clientId].offers = 1
  /\ openPcs[lastOp.sock][lastOp.msg.clientId] = 1

\* both sides of the pair hold a link whose offer/answer exchange is complete
Linked(a, b) == peers[a][b].done /\ peers[b][a].done

\* C4: when nothing is lost, no Media Engine call rejects and nobody leaves,
\* two ids that hold a session of the relay end up with a completed link on
\* both sides.
C4_FullMesh ==
  \A a \in Clients, b \in Clients :
    a < b => ((MapHas(clientIdToSocket, a) /\ MapHas(clientIdToSocket, b)) ~> Linked(a, b))

C4_Witness ==
  /\ \A a \in Clients, b \in Clients : a # b => Linked(a, b)
  /\ Len(clientIdToSocket) = NumClients

\* C10: once the socket of connect() has closed, the promise of connect() is
\* settled.
C10_ConnectSettles ==
  \A c \in Clients : ws[c] = "closed" => promise[c] # "pending"

\* ------------------------------------------------------------- wire claims
\* C16: every offer, answer and ice envelope that an instance in a room, as
\* host or as joiner, writes to its relay connection carries its sdp /
\* candidate as ciphertext with encrypted: true, never as plaintext.
C16_PayloadsEncrypted ==
  \A c \in Clients : \A i \in 1..Len(toRelay[c]) :
    toRelay[c][i].t \in RelayTypes =>
      toRelay[c][i].encrypted /\ toRelay[c][i].payload # Sdp

\* C17: when decrypting the sdp / candidate of a received encrypted envelope
\* fails (wrong key, tampered or truncated ciphertext), no handler is invoked
\* for that envelope, the connection stays as it is, open when it was open,
\* and what arrives later is processed as if the envelope had not arrived:
\* the step that drops it changes nothing but the list of suspended calls,
\* and an envelope is dropped only when its decryption fails.
C17_State ==
  /\ lastOp.op = "recv" => lastOp.msg \notin WireBad
  /\ lastOp.op = "dropped" => lastOp.msg \in WireBad
C17_Step ==
  lastOp'.op = "dropped" =>
    /\ cryptoOps'[CoordId] # cryptoOps[CoordId]
    /\ UNCHANGED <<relayCore, toRelay, toClient, netClosed>>
    /\ UNCHANGED <<currentRoom, signaling, ws, promise, peers, openPcs, tasks, crypto>>
C17_DecryptFailureDropped == []C17_State /\ [][C17_Step]_vars

\* a bad envelope has been dropped on the open connection while a later
\* envelope is suspended in decrypt()
C17_Witness ==
  /\ lastOp.op = "dropped"
  /\ lastOp.msg \in WireBad
  /\ ws[CoordId] = "open"
  /\ \E i \in 1..Len(cryptoOps[CoordId]) : cryptoOps[CoordId][i].dir = "dec"

\* ------------------------------------------------------- room life claims
\* C18: when the connection to the relay does not open, or closes before
\* the welcome, the session is back in the not-in-room state once the close
\* has been handled: no current room, no relay client, no peer links; in
\* join mode and in host mode alike.
C18_FailureReverts ==
  \A c \in Clients :
    ws[c] = "closed" /\ promise[c] = "pending" =>
      /\ currentRoom[c] = "none"
      /\ ~signaling[c]
      /\ \A p \in Clients : peers[c][p] = NoLink /\ openPcs[c][p] = 0

\* the host has stopped hosting
HostStopped == roomHost # 0 /\ ~isHosting /\ ~wsServer
NoLinks(c) == \A p \in Clients : peers[c][p] = NoLink /\ openPcs[c][p] = 0
\* instance c had a session at the relay when the host stopped:
\* stopWsServer() has terminated its socket
WasJoined(c) == c # roomHost /\ sockState[c] \in {"terminated", "closed"}

\* C19: after the host has stopped hosting, every instance that was joined
\* leaves the room state in the end (its links are removed and it is in no
\* room), and the announcement timer of the room is cleared, so that no
\* further announce datagram is sent.
C19_Leaves ==
  \A c \in Clients :
    (HostStopped /\ WasJoined(c)) ~> (currentRoom[c] = "none" /\ NoLinks(c))
C19_NoAnnouncement == ~isHosting => announceInterval = Off
C19_HostExitEnds == C19_Leaves /\ []C19_NoAnnouncement

\* the host has stopped while an instance was joined and linked; that
\* instance was sent away and is in no room
C19_Witness ==
  /\ HostStopped
  /\ \E c \in Clients :
       /\ WasJoined(c)
       /\ promise[c] = "resolved"
       /\ promise[roomHost] = "resolved"
       /\ ws[c] = "closed"
       /\ currentRoom[c] = "none"
       /\ NoLinks(c)

\* ------------------------------------------------------- directory claims
\* C11: an entry not refreshed for more than 6 time units is in no
\* notification, whichever handler sends it: no rooms-update and no
\* peers-update carries an entry last seen more than the TTL ago.
C11_StaleAbsent == \A i \in 1..Len(notified) : notified[i].old = {}

\* the other instance announces, and Me has received every datagram it has
\* sent since it started
Continues(k) == remoteTimers[k].due # Off /\ remoteTimers[k].heard

C12_Present ==
  /\ isHosting => roomMap[OwnRoom] # Absent
  /\ Continues("room") => roomMap[RemoteRoom] # Absent
  /\ Continues("peer") => peerMap[RemotePeer] # Absent

C12_Step ==
  /\ (isHosting /\ roomMap[OwnRoom] # Absent) => roomMap'[OwnRoom] # Absent
  /\ (Continues("room") /\ roomMap[RemoteRoom] # Absent) => roomMap'[RemoteRoom] # Absent
  /\ (Continues("peer") /\ peerMap[RemotePeer] # Absent) => peerMap'[RemotePeer] # Absent

\* C12: while a room is announced every 2 time units, or a presence every
\* 3, and the announcements are received, the entry is in the Map and no
\* step, the sweep among them, removes it.
C12_NeverExpires == []C12_Present /\ [][C12_Step]_vars

\* the sweep has just run, more than the TTL after the other host or the
\* other instance started, and its entry is still there
C12_Witness ==
  /\ pruneInterval = now + SweepUnits * TicksPerUnit
  /\ \E k \in Sources :
       /\ Continues(k) /\ now - remoteTimers[k].since > Ttl
       /\ IF k = "room" THEN roomMap[RemoteRoom] # Absent ELSE peerMap[RemotePeer] # Absent

\* C13: while Me hosts its room, the rooms its DiscoveryController shows do
\* not hold that room.
C13_OwnRoomFiltered == isHosting => OwnRoom \notin Keys(rooms)

\* ------------------------------------------------------ invitation claims
\* C14: however often the invitation to a room has been received by the
\* instance it targets, the user has been shown one banner for it and at
\* most one system notification.
C14_ShownOnce ==
  \A r \in RoomIds :
    delivered[r].received >= 1 => delivered[r].banner = 1 /\ delivered[r].system <= 1

\* ------------------------------------------------------------ link claims
\* the handler that just ran left the WebRTCManager of instance c and what
\* c has written as they were
Quiet(c) ==
  /\ peers'[c] = peers[c]
  /\ openPcs'[c] = openPcs[c]
  /\ tasks'[c] = tasks[c]
  /\ toRelay'[c] = toRelay[c]

\* ws.onmessage of an envelope with tag t has just run
Received(t) == lastOp'.op = "recv" /\ lastOp'.msg.t = t

C21_Step ==
  Received("answer") =>
    LET c == lastOp'.sock
        from == lastOp'.msg.from
    IN IF peers[c][from].sig = "have-local-offer"
       THEN /\ \A p \in Clients \ {from} : peers'[c][p] = peers[c][p]
            /\ \/ peers'[c][from].sig = "stable" /\ peers'[c][from].done
               \/ peers'[c][from].failed /\ engineFailures' = engineFailures + 1
            /\ openPcs'[c] = openPcs[c] /\ toRelay'[c] = toRelay[c]
       ELSE Quiet(c)

\* C21: an answer is applied when the pc of its sender has a local offer
\* out, and the link is then connected unless the Media Engine rejects it;
\* an answer from an id without a link, or whose pc is in another state,
\* changes no link, no pc, no suspended handler and sends nothing.
C21_AnswerOnlyInOfferSent == [][C21_Step]_vars

\* an answer has just been handled from an id whose link is connected by an
\* answer of this instance, which never offered on it
C21_Witness ==
  /\ lastOp.op = "recv" /\ lastOp.msg.t = "answer"
  /\ peers[lastOp.sock][lastOp.msg.from].done
  /\ peers[lastOp.sock][lastOp.msg.from].offers = 0

C22_Step ==
  Received("offer") =>
    LET c == lastOp'.sock
        from == lastOp'.msg.from
    IN peers[c][from].sig = "have-local-offer" => Quiet(c)

\* C22: an offer from an id whose pc has a local offer out starts no Media
\* Engine call, sends nothing and leaves the link with its local offer.
C22_RaceOfferDiscarded == [][C22_Step]_vars

\* an offer has just been handled from the id this instance has offered to
C22_Witness ==
  /\ lastOp.op = "recv" /\ lastOp.msg.t = "offer"
  /\ peers[lastOp.sock][lastOp.msg.from].sig = "have-local-offer"
  /\ peers[lastOp.sock][lastOp.msg.from].offers = 1

\* the handler of an offer from p has reached createAnswer()
Answering(c, p) == Task("answer", p, <<>>)

C23_Step ==
  /\ Received("offer") =>
       LET c == lastOp'.sock
           from == lastOp'.msg.from
       IN (peers[c][from].sig = "none" \/ (peers[c][from].sig = "stable" /\ ~peers[c][from].done))
          => /\ peers'[c][from].sig = "stable"
             /\ openPcs'[c][from] = 1
             /\ Task("setRemote", from, <<>>) \in tasks'[c]
             /\ toRelay'[c] = toRelay[c]
  /\ \A c \in Clients, p \in Clients :
       /\ (Answering(c, p) \in tasks[c] /\ Answering(c, p) \notin tasks'[c]) =>
            \/ peers'[c][p].sig = "none"
            \/ /\ peers'[c][p].failed
               /\ engineFailures' = engineFailures + 1
               /\ toRelay'[c] = toRelay[c]
            \/ /\ toRelay'[c] = Append(toRelay[c], Signal("answer", c, p))
               /\ peers'[c][p].sig = "stable" /\ peers'[c][p].done
       /\ Count(toRelay'[c], Signal("answer", c, p)) > Count(toRelay[c], Signal("answer", c, p))
            => Answering(c, p) \in tasks[c]

C24_Step ==
  (/\ lastOp.op = "state" /\ lastOp.msg.t \in {"failed", "closed"}
   /\ lastOp'.op = "recv" /\ lastOp'.msg.t \in RelayTypes
   /\ lastOp'.sock = lastOp.sock /\ lastOp'.msg.from = lastOp.msg.from)
  => /\ peers'[lastOp.sock][lastOp.msg.from] = NoLink
     /\ Quiet(lastOp.sock)

\* C24: when the link to an id has just been removed because its pc failed
\* or closed, the next offer, answer or ice envelope from that id finds no
\* record, creates no link, starts no call and sends nothing.
C24_LateMessageDropped == [][C24_Step]_vars

C25_Step ==
  lastOp'.op = "state" =>
    LET c == lastOp'.sock
        p == lastOp'.msg.from
    IN /\ \A q \in Clients \ {p} : peers'[c][q] = peers[c][q] /\ openPcs'[c][q] = openPcs[c][q]
       /\ toRelay'[c] = toRelay[c]
       /\ IF lastOp'.msg.t \in {"failed", "closed"}
          THEN /\ peers'[c][p] = NoLink
               /\ openPcs'[c][p] = 0
               /\ \A t \in tasks'[c] : t.peer # p
          ELSE Quiet(c)

\* C25: the connection state failed or closed removes the link of that pc
\* (its record with the video element, and the pc); disconnected, like
\* connected, leaves the map, the pcs and the suspended handlers alone.
C25_OnlyTerminalTearsDown == [][C25_Step]_vars

\* a connected link has just reported disconnected and is still there
C25_Witness ==
  /\ lastOp.op = "state" /\ lastOp.msg.t = "disconnected"
  /\ peers[lastOp.sock][lastOp.msg.from].done
  /\ openPcs[lastOp.sock][lastOp.msg.from] = 1

C26_Step ==
  Received("ice") =>
    LET c == lastOp'.sock
        from == lastOp'.msg.from
    IN /\ Quiet(c)
       /\ ws'[c] = ws[c] /\ currentRoom'[c] = currentRoom[c] /\ signaling'[c] = signaling[c]
       /\ lastOp'.events # <<>> <=> (peers[c][from].sig # "none" /\ lastOp'.msg.payload # <<>>)
       /\ \A i \in 1..Len(lastOp'.events) : lastOp'.events[i].sock = from

\* C26: a candidate is added to the pc of its sender when the map has one;
\* without a record nothing is called and no link is created; whatever the
\* candidate (null too) and whatever the Media Engine answers, the map, the
\* pcs, the suspended handlers, the connection and the room stay as they are.
C26_IceApplied == [][C26_Step]_vars

\* a null candidate has just been handled on a connected link, and a Media
\* Engine call has rejected before
C26_Witness ==
  /\ lastOp.op = "recv" /\ lastOp.msg.t = "ice"
  /\ lastOp.msg.payload = <<>>
  /\ peers[lastOp.sock][lastOp.msg.from].done
  /\ currentRoom[lastOp.sock] = "join"

\* the first id of seq that the welcome loop of c is to offer to
RECURSIVE NextOffer(_, _)
NextOffer(c, seq) ==
  IF seq = <<>> THEN 0
  ELSE IF peers[c][Head(seq)].sig = "none" /\ c < Head(seq) THEN Head(seq)
  ELSE NextOffer(c, Tail(seq))

C27_Step ==
  \A c \in Clients, p \in Clients :
    (~peers[c][p].failed /\ peers'[c][p].failed) =>
      /\ \A q \in Clients \ {p} :
           peers[c][q].sig # "none" => /\ peers'[c][q] = peers[c][q]
                                       /\ openPcs'[c][q] = openPcs[c][q]
      /\ {t \in tasks[c] : t.peer # p} \subseteq tasks'[c]
      /\ ws'[c] = ws[c] /\ signaling'[c] = signaling[c] /\ currentRoom'[c] = currentRoom[c]
      /\ promise'[c] = promise[c]
      /\ \A t \in tasks[c] \ tasks'[c] :
           (t.kind = "offer" /\ NextOffer(c, t.rest) # 0) =>
             \E u \in tasks'[c] : u.kind = "offer" /\ u.peer = NextOffer(c, t.rest)

\* C27: when a Media Engine call on the pc of p rejects, the links, pcs and
\* suspended handlers of the other ids stay as they were, the welcome loop
\* goes on to the next id it is to offer to, and the connection, the
\* SignalingClient and the room stay as they were.
C27_FailureIsolated == [][C27_Step]_vars

\* instance 1 joined last, its createOffer() for 2 was rejected and it has
\* offered to 3, the next id of its welcome, on a connection that is open
C27_Witness ==
  /\ Len(clientIdToInfo) = 3
  /\ clientIdToInfo[1].id = 2 /\ clientIdToInfo[2].id = 3 /\ clientIdToInfo[3].id = 1
  /\ peers[1][2].failed /\ peers[1][2].offers = 0
  /\ peers[1][3].offers = 1
  /\ ws[1] = "open"

\* C28: no link is left in the map on which the creation of the offer or of
\* the answer was rejected.
C28_FailedLinkAborted ==
  \A c \in Clients, p \in Clients : ~(peers[c][p].failed /\ peers[c][p].offers = 0)

\* --------------------------------------------------------- shutdown claims
C29_Timers ==
  /\ ~isHosting => announceInterval = Off
  /\ discoverySocket = "closed" =>
       pruneInterval = Off /\ announceInterval = Off /\ peerAnnounceInterval = Off

C29_Step ==
  /\ lastSent'["room"] # lastSent["room"] => isHosting' /\ discoverySocket' = "open"
  /\ lastSent'["peer"] # lastSent["peer"] => peerAnnounceInterval' # Off /\ discoverySocket' = "open"
  /\ discoverySocket = "closed" => lastSent' = lastSent /\ discoverySocket' = "closed"

\* C29: the announcement timer is armed only while hosting, so that after
\* stopAnnouncing() no announce datagram leaves; a peer-presence datagram
\* leaves only while the presence timer is armed; when the broadcast socket
\* is closed every repeating timer is cleared, and nothing is sent after.
C29_NoBroadcastAfterShutdown == [](C29_Timers) /\ [][C29_Step]_vars

\* the application has quit while hosting and announcing its presence, and
\* more than a period of either timer has gone by since the last datagram
C29_Witness ==
  /\ discoverySocket = "closed"
  /\ isHosting
  /\ lastSent["room"] # Off /\ now > lastSent["room"] + Period("room")
  /\ lastSent["peer"] # Off /\ now > lastSent["peer"] + Period("peer")

\* the callback of pruneInterval has just run
Swept == pruneInterval' # pruneInterval /\ pruneInterval' # Off

C30_Sweep ==
  Swept =>
    /\ roomMap' = roomMap => \A i \in 1..Len(notified') : notified'[i].kind # "rooms"
    /\ peerMap' = peerMap => \A i \in 1..Len(notified') : notified'[i].kind # "peers"
    /\ roomMap' = roomMap => emits' = emits

C30_Step ==
  /\ C30_Sweep
  /\ (emits' # emits /\ isHosting' = isHosting) => Keys(rooms') # Keys(rooms)

\* C30: a sweep that removes nothing sends no notification, and a handler
\* other than host:start and host:stop calls the observers of onRooms only
\* when the set of rooms differs from the previous one.
C30_NotifiedOnlyOnChange == [][C30_Step]_vars

\* ------------------------------------------------------------- key claims
\* C31: on one CryptoManager the key is derived at most once and this.key
\* is assigned at most once, however the calls of encrypt() and decrypt()
\* interleave.
C31_DerivedOnce == manager.derivations <= 1 /\ manager.assignments <= 1

C32_Step ==
  (transform.frames # <<>> /\ ~DecryptBinary(transform.room, Head(transform.frames)).ok)
  => /\ transform'.out = transform.out
     /\ transform'.frames = Tail(transform.frames)

\* C32: for a frame whose decryption fails the receiver transform enqueues
\* nothing, and it goes on to the next frame.
C32_FailedFrameDropped == [][C32_Step]_vars

\* ---------------------------------------------------- relay session claims
C36_Step ==
  \A s \in Socks :
    (/\ lastOp'.op = "close" /\ lastOp'.sock = s
     /\ thisClientId[s] # NoId
     /\ MapHas(clientIdToSocket, thisClientId[s])
     /\ MapVal(clientIdToSocket, thisClientId[s]) # s)
    => /\ clientIdToSocket' = clientIdToSocket
       /\ clientIdToInfo' = clientIdToInfo
       /\ lastOp'.events = <<>>

\* C36: the close of a connection whose clientId is bound to another, newer
\* connection removes no entry of the membership table and sends no
\* peer-left.
C36_StaleCloseKeepsSession == [][C36_Step]_vars

C37_Step ==
  \A i \in 1..Len(lastOp'.events) :
    (lastOp'.op \in {"leave", "close"} /\ lastOp'.events[i].msg.t = "peer-left")
    => MapHas(clientIdToInfo, lastOp'.events[i].msg.clientId)

\* C37: the relay sends peer-left for a clientId only in the handler that
\* takes that clientId out of the membership table, so that a departure is
\* announced once.
C37_DepartureAnnouncedOnce == [][C37_Step]_vars

\* C38: every entry of clientIdToSocket is bound to a connection that has
\* not closed.
C38_EntriesBoundToOpen ==
  \A i \in 1..Len(clientIdToSocket) : sockState[clientIdToSocket[i].v] # "closed"

\* ------------------------------------------------------ arrival order claim
C40_Step ==
  ~ /\ lastOp'.op = "recv"
    /\ lastOp'.msg.t = "peer-left"
    /\ \E i \in 1..Len(cryptoOps[CoordId]) :
         /\ cryptoOps[CoordId][i].dir = "dec"
         /\ cryptoOps[CoordId][i].msg.t = "offer"
         /\ cryptoOps[CoordId][i].msg \notin WireBad
         /\ cryptoOps[CoordId][i].msg.from = lastOp'.msg.clientId

\* C40: the relay client hands envelopes to its handlers in the order of
\* their arrival, also when some await decryption: the peer-left of a peer
\* is never handled while an offer of that peer that arrived before it, and
\* that decrypts, is still suspended in decrypt().
C40_ArrivalOrder == [][C40_Step]_vars

\* ------------------------------------------------------- one session claim
\* C39: under any interleaving of Create Room and join-room requests an
\* instance constructs at most one relay client, so that it is never host
\* and joiner at once.
C39_OneSession == Len(session.made) <= 1

\* ---------------------------------------------------- host reconnect claim
C34_Step ==
  (session'.timers < session.timers /\ session.currentRoom = "host")
  => \E i \in Clicks :
       /\ session.calls[i] = IdleCall
       /\ session'.calls[i].stage \in {"hostStart", "getLocalIp", "initLocal", "connect"}

\* C34: when the relay connection of the hosting instance has closed while
\* it is still hosting, the timer armed by the close starts a call that goes
\* on to a new connection attempt when it fires.
C34_HostReconnects == [][C34_Step]_vars

\* ------------------------------------------------------- relay order claim
\* what was sent on connection r, by position: the envelopes relayed for the
\* client s, and the notices of the joins of s
RelayedAt(r, s) ==
  {i \in 1..Len(toClient[r]) : toClient[r][i].t \in {"offer", "ice"} /\ toClient[r][i].from = s}
NoticeAt(r, s) ==
  {i \in 1..Len(toClient[r]) : toClient[r][i].t = "peer-joined" /\ toClient[r][i].clientId = s}
Welcomes(s) == Cardinality({i \in 1..Len(toClient[s]) : toClient[s][i].t = "welcome"})
JoinsBefore(s, k) == Cardinality({j \in 1..(k - 1) : written[s][j] = "join"})

\* C35: the envelopes of one client reach a recipient in the order in which
\* the client wrote them, and when an envelope of a client is relayed every
\* join that the client wrote before it has been handled in full: its welcome
\* has been sent, and its peer-joined notice precedes the relayed envelope on
\* every connection that got both; no notice of a later join precedes it.
C35_PerConnectionOrder ==
  \A s \in Socks, r \in Socks :
    /\ \A a \in RelayedAt(r, s), b \in RelayedAt(r, s) :
         a < b => toClient[r][a].payload[1] < toClient[r][b].payload[1]
    /\ \A b \in RelayedAt(r, s) : Welcomes(s) >= JoinsBefore(s, toClient[r][b].payload[1])
    /\ \A a \in NoticeAt(r, s), b \in RelayedAt(r, s) :
         a < b <=> toClient[r][a].name < toClient[r][b].payload[1]

\* the client of connection 1 wrote a join and two envelopes after it while
\* the relay had read none; connection 2 has got the notice and both
C35_Witness ==
  /\ written[1] = <<"join", "offer", "ice">>
  /\ Cardinality(RelayedAt(2, 1)) = 2
  /\ NoticeAt(2, 1) # {}
  /\ Welcomes(1) = 1

\* ------------------------------------------------- malformed input claim
\* an envelope of the relay, or a datagram, that cannot be parsed, has no t,
\* has an unknown t, or lacks the id its t requires
MalformedEnvelope(m) ==
  \/ m.t \notin {"join", "leave", "offer", "answer", "ice"}
  \/ m.t = "join" /\ m.clientId = 0
  \/ m.t \in {"offer", "answer", "ice"} /\ m.to = 0
MalformedDatagram(d) ==
  \/ ~d.parsed
  \/ d.t \notin {"announce", "peer-presence", "invitation"}
  \/ d.t \in {"announce", "invitation"} /\ d.roomId = 0
  \/ d.t = "peer-presence" /\ d.peerId = 0
C33_Quiet ==
  /\ UNCHANGED <<roomMap, peerMap, rooms, clientIdToSocket, clientIdToInfo, thisClientId>>
  /\ UNCHANGED <<toClient, toRelay, sockState, inviteVars>>
  /\ lastOp'.events = <<>>
C33_Step ==
  /\ (lastOp'.op \in {"join", "leave", "relay", "drop"} /\ MalformedEnvelope(lastOp'.msg))
       => C33_Quiet /\ notified' = notified
  /\ (lastOp'.op = "datagram" /\ MalformedDatagram(lastOp'.msg))
       => C33_Quiet /\ notified' = <<>>

\* C33: a datagram or relay envelope that cannot be parsed, has no
\* discriminator, has an unknown tag or lacks the id its tag requires leaves
\* the room directory, the peer directory and the membership table as they
\* were, and its handler sends nothing: no envelope on any connection, no
\* rooms-update or peers-update, no invitation to the renderer.
C33_MalformedDropped == [][C33_Step]_vars

\* a datagram without the id of its tag has just been handled while the
\* directory holds a room, the relay a session, and a connection is open
\* that has not joined
C33_Witness ==
  /\ lastOp.op = "datagram"
  /\ MalformedDatagram(lastOp.msg)
  /\ lastOp.msg.t \in {"announce", "peer-presence"}
  /\ roomMap[RemoteRoom] # Absent
  /\ Len(clientIdToSocket) = 1
  /\ \E s \in Socks : sockState[s] = "open" /\ thisClientId[s] = NoId

====
